---- MODULE Spec2Model ----
(***************************************************************************)
(* A model of the parallel data plane of cqlshlib/copyutil.py (COPY TO and *)
(* COPY FROM): token-range generation, the export coordinator and its      *)
(* workers, and the import feeder, workers and coordinator.                *)
(*                                                                         *)
(* Three groups of variables model three parts of the program; each        *)
(* specification below drives one group and leaves the others untouched:   *)
(*   SpecRanges  ExportTask.get_ranges, a pure function of its inputs      *)
(*   SpecExport  ExportTask.export_records with the ExportProcess workers  *)
(*   SpecImport  ImportTask.import_records with the feeder and workers     *)
(***************************************************************************)
EXTENDS Integers, Sequences, FiniteSets, TLC

VARIABLES
    rg_pc,      \* get_ranges: "start" before the call, "done" after it
    rg_in,      \* get_ranges: the inputs (partitioner, ring, begin/end token)
    rg_ranges,  \* get_ranges: the dict returned, (begin, end) -> range data
    ex_pc,        \* export coordinator: "start", "loop" (in the receive loop), "done"
    ex_ranges,    \* export coordinator: the dict ranges, (begin, end) -> range data
    ex_outmsg,    \* outmsg.channels[i]: assignments in flight to worker i
    ex_inmsg,     \* inmsg.channels[i]: results in flight from worker i
    ex_succeeded, \* export coordinator: succeeded
    ex_failed,    \* export coordinator: failed
    ex_sessions,  \* worker i: hosts_to_sessions, host -> ExportSession.requests
    ex_futures,   \* worker i: the async requests whose callbacks are pending
    ex_hist,      \* history (not program state): what happened to each range
    ex_format_errors, \* history: the pages that could not be formatted so far
    im_kinds,     \* import: what the program does with each row of the input
    im_opts,      \* import: the options chunksize, maxparseerrors, maxinserterrors
    im_feeder,    \* feeder: reader position, chunk_id, sent, send_meter, loop position
    im_outmsg,    \* outmsg.channels[i]: chunks and poison pills in flight to child i
    im_inmsg,     \* inmsg.channels[i]: results and errors in flight from child i
    im_chunks,    \* workers: len(chunk['rows']) and chunk['imported'] of each chunk
    im_job,       \* worker i: the chunk whose batches it is sending, if any
    im_batches,   \* worker i: the batches whose callbacks are pending
    im_worker_pc, \* worker i: "run" in its loop, "exit" after the poison pill
    im_coord,     \* import coordinator: loop position, feeding_result, meter, counters
    im_err_file,  \* the error file: how many times each row was written to it
    im_delivered, \* history: the rows of the batches the cluster acknowledged
    im_emitted,   \* history: the ImportProcessResult messages sent for each chunk
    wr_pc,        \* export writer: "new", "open" after open(), "closed" after close()
    wr_opts,      \* export writer: fname given or not, header, maxoutputsize
    wr_writer,    \* ExportWriter: current_dest, num_files, num_written and the files
    wr_next,      \* the rows handed to write so far
    rp_policy,    \* ExpBackoffRetryPolicy: max_attempts
    rp_call,      \* the last timeout handled: which handler, consistency, retry_num
    rp_result,    \* what the handler returned: decision and consistency
    rp_sleeps,    \* the calls of time.sleep the handler made
    rm_meter,     \* RateMeter: current_record, total_records, last_checkpoint_time
    rm_now,       \* time.time(), in update intervals of the meter
    rm_sum,       \* history: the sum of the n of the calls of increment
    rm_returned,  \* what the last call returned if it was get_total_records, else None
    sb_pc,        \* a worker with one chunk: "chunk" received, "split" into batches
    sb_chunk,     \* the chunk: id and rows
    sb_kinds,     \* what the program does with each row of the chunk
    sb_result,    \* the converted rows and what split_into_batches yields
    tk_pc,        \* a COPY command: "new", "constructed", "started", "returned"
    tk_in,        \* the command: direction, options, columns, table
    tk_task,      \* the task object: num_processes, channels, columns, processes
    tk_sent,      \* the messages sent on the channels of the task
    pg_futures,   \* an export worker: the paged query of each of its token ranges
    pg_thread,    \* the callback the driver thread of the worker is in
    pg_inmsg,     \* the channel of the worker to the coordinator
    pg_output,    \* the pages the coordinator gave to the writer, in order
    lv_dir,       \* a task whose children can die: its direction
    lv_pc,        \* where the coordinator is: "send_all", "loop", "send", "check", "done"
    lv_alive,     \* is_alive() of each child process
    lv_outmsg,    \* the number of objects in the channel to each child
    lv_inflight,  \* the work each child has and has not answered
    lv_inmsg,     \* the results in the channels to the coordinator
    lv_coord,     \* the coordinator: ranges to send, next channel, results awaited, retries left
    lv_reported,  \* the message about dead children was printed
    rd_in,        \* an input read by both readers: rows, skiprows, maxrows, chunksize
    rd_files,     \* the FilesReader over the input as one file, and the rows it returned
    rd_pipe,      \* the PipeReader over the input as stdin, and the rows it returned
    fd_in,        \* a feeder: the rows of its file, chunksize, ingestrate, numprocesses
    fd_feeder,    \* the FeedingProcess: its reader, its send meter, chunk_id, sent
    fd_chunks,    \* history: the chunks sent, with the worker channel and max_rows of each
    fd_outmsg,    \* the channel of the feeder to the coordinator
    fd_inmsg,     \* the channel of the coordinator to the feeder: "empty", "None", "read"
    uc_chunk,     \* a chunk of an import worker: its rows and imported
    uc_thread,    \* update_chunk in the main thread and in the callback thread: pc, len(rows), the value read
    uc_rows,      \* history: the rows passed to the calls of update_chunk made so far
    uc_out,       \* the ImportProcessResult messages sent for the chunk
    si_np,        \* stdin import: the option numprocesses
    si_coord,     \* stdin import: the coordinator, in send_stdin_rows or in its loop
    si_pipe,      \* stdin import: outmsg.channels[-1], coordinator to feeder
    si_feeder,    \* stdin import: the feeder, its PipeReader and the chunk in hand
    si_chunks,    \* stdin import: outmsg.channels[i], feeder to worker i
    si_results,   \* stdin import: inmsg.channels[i], worker i to coordinator
    si_feed_out,  \* stdin import: inmsg.channels[-1], feeder to coordinator
    si_worker     \* stdin import: worker i, its main thread and its pending batches

rgVars == <<rg_pc, rg_in, rg_ranges>>
exVars == <<ex_pc, ex_ranges, ex_outmsg, ex_inmsg, ex_succeeded, ex_failed,
            ex_sessions, ex_futures, ex_hist, ex_format_errors>>
imVars == <<im_kinds, im_opts, im_feeder, im_outmsg, im_inmsg, im_chunks, im_job, im_batches, im_worker_pc,
            im_coord, im_err_file, im_delivered, im_emitted>>
wrVars == <<wr_pc, wr_opts, wr_writer, wr_next>>
rpVars == <<rp_policy, rp_call, rp_result, rp_sleeps>>
rmVars == <<rm_meter, rm_now, rm_sum, rm_returned>>
sbVars == <<sb_pc, sb_chunk, sb_kinds, sb_result>>
tkVars == <<tk_pc, tk_in, tk_task, tk_sent>>
pgVars == <<pg_futures, pg_thread, pg_inmsg, pg_output>>
lvVars == <<lv_dir, lv_pc, lv_alive, lv_outmsg, lv_inflight, lv_inmsg, lv_coord, lv_reported>>
rdVars == <<rd_in, rd_files, rd_pipe>>
fdVars == <<fd_in, fd_feeder, fd_chunks, fd_outmsg, fd_inmsg>>
ucVars == <<uc_chunk, uc_thread, uc_rows, uc_out>>
siVars == <<si_np, si_coord, si_pipe, si_feeder, si_chunks, si_results, si_feed_out, si_worker>>
vars == <<rgVars, exVars, imVars, wrVars, rpVars, rmVars, sbVars, tkVars, pgVars, lvVars, rdVars, fdVars, ucVars, siVars>>

\* the variables that an operation of one part of the program leaves alone
otherThanRanges == <<exVars, imVars, wrVars, rpVars, rmVars, sbVars, tkVars, pgVars, lvVars, rdVars, fdVars, ucVars, siVars>>
otherThanExport == <<rgVars, imVars, wrVars, rpVars, rmVars, sbVars, tkVars, pgVars, lvVars, rdVars, fdVars, ucVars, siVars>>
otherThanImport == <<rgVars, exVars, wrVars, rpVars, rmVars, sbVars, tkVars, pgVars, lvVars, rdVars, fdVars, ucVars, siVars>>
otherThanWriter == <<rgVars, exVars, imVars, rpVars, rmVars, sbVars, tkVars, pgVars, lvVars, rdVars, fdVars, ucVars, siVars>>
otherThanPolicy == <<rgVars, exVars, imVars, wrVars, rmVars, sbVars, tkVars, pgVars, lvVars, rdVars, fdVars, ucVars, siVars>>
otherThanMeter == <<rgVars, exVars, imVars, wrVars, rpVars, sbVars, tkVars, pgVars, lvVars, rdVars, fdVars, ucVars, siVars>>
otherThanBatching == <<rgVars, exVars, imVars, wrVars, rpVars, rmVars, tkVars, pgVars, lvVars, rdVars, fdVars, ucVars, siVars>>
otherThanTask == <<rgVars, exVars, imVars, wrVars, rpVars, rmVars, sbVars, pgVars, lvVars, rdVars, fdVars, ucVars, siVars>>
otherThanPaging == <<rgVars, exVars, imVars, wrVars, rpVars, rmVars, sbVars, tkVars, lvVars, rdVars, fdVars, ucVars, siVars>>
otherThanLiveness == <<rgVars, exVars, imVars, wrVars, rpVars, rmVars, sbVars, tkVars, pgVars, rdVars, fdVars, ucVars, siVars>>
otherThanReaders == <<rgVars, exVars, imVars, wrVars, rpVars, rmVars, sbVars, tkVars, pgVars, lvVars, fdVars, ucVars, siVars>>
otherThanFeeding == <<rgVars, exVars, imVars, wrVars, rpVars, rmVars, sbVars, tkVars, pgVars, lvVars, rdVars, ucVars, siVars>>
otherThanUpdate == <<rgVars, exVars, imVars, wrVars, rpVars, rmVars, sbVars, tkVars, pgVars, lvVars, rdVars, fdVars, siVars>>
otherThanStdin == <<rgVars, exVars, imVars, wrVars, rpVars, rmVars, sbVars, tkVars, pgVars, lvVars, rdVars, fdVars, ucVars>>

(***************************************************************************)
(* Bounds of the model.                                                    *)
(***************************************************************************)
MaxToken == 2        \* tokens are MIN_LONG .. MaxToken, MIN_LONG = -(MaxToken+1)
MaxRing == 3         \* at most this many tokens in the ring
NumProcesses == 2    \* the option numprocesses of the modelled runs
MaxAttempts == 2     \* the option maxattempts of the modelled runs
MaxRequests == 1     \* the option maxrequests of the modelled runs
MaxPages == 2        \* a query returns at most this many pages
MaxPageRows == 1     \* a page holds at most this many rows
MaxFormatErrors == 1 \* at most this many pages of a run fail to be formatted
NumRows == 3         \* the rows of the file that is imported
ChunkSize == 2       \* the option chunksize of the modelled runs (or 1)
IngestRate == 3      \* the option ingestrate of the modelled runs
MinBatchSize == 1    \* the option minbatchsize of the modelled runs
MaxBatchSize == 2    \* the option maxbatchsize of the modelled runs
MaxErrorsOption == 1 \* maxparseerrors and maxinserterrors when they are set
PipeCapacity == 1    \* the objects a worker's channel holds before a send blocks
MaxExportRows == 5   \* the rows handed to the export writer in a run
MaxOutputSize == 2   \* the option maxoutputsize when it is set
MaxPolicyAttempts == 3 \* max_attempts of the retry policy
MaxRetryNum == 3     \* retry_num of a timeout
MaxTime == 3         \* the clock of the rate meter runs up to this time
MaxIncrement == 2    \* increment(n) is called with n up to this
MaxRecords == 4      \* the increments of a run add up to at most this
MaxChunkRows == 4    \* the rows of the chunk that is split into batches
MaxNumProcesses == 3 \* the largest value of the option numprocesses of a command
MaxSent == 2         \* the messages of a started task that are counted
MaxPageRanges == 2   \* the token ranges one export worker queries at a time
MaxLiveRanges == 3   \* the token ranges of an export whose children can die
MaxLiveResults == 2  \* the results an import child has to send
MaxInputRows == 4    \* the rows of the input given to the two readers
MaxSkipRows == 2     \* the largest option skiprows
MaxFeedRows == 4     \* the rows of the file of a feeder
MaxStdinRows == 8    \* the most rows typed on STDIN in a modelled run

(***************************************************************************)
(* Python values.  None is modelled by an integer outside of every token   *)
(* domain; Python 2 orders None before every number.                       *)
(***************************************************************************)
None == -(MaxToken + MaxToken + 10)

\* Python truth value of an optional long: None and 0 are false
Truthy(x) == x # None /\ x # 0

\* Python 2 comparison a < b of optional longs (None < any number)
PyLt(a, b) == IF a = None THEN b # None ELSE IF b = None THEN FALSE ELSE a < b

\* Python 2 comparison a > b
PyGt(a, b) == PyLt(b, a)

(***************************************************************************)
(* Tokens, partitioners and the ring.                                      *)
(***************************************************************************)
\* Long.MIN_VALUE, scaled to the token domain of the model
MIN_LONG == -(MaxToken + 1)

Tokens == MIN_LONG .. MaxToken

Partitioners == {"Murmur3Partitioner", "RandomPartitioner", "ByteOrderedPartitioner"}

\* the minimum token of the partitioner, None when tokens are not supported
get_min_token(partitioner) ==
    IF partitioner = "RandomPartitioner" THEN -1
    ELSE IF partitioner = "Murmur3Partitioner" THEN MIN_LONG
    ELSE None

\* the tokens a node of the cluster can own under a partitioner
RingTokens(partitioner) ==
    IF partitioner = "RandomPartitioner" THEN 0 .. MaxToken ELSE Tokens

Hosts == {"h1", "h2"}

\* shell.hostname, the host the shell is connected to
hostname == "h0"

\* the replicas the driver metadata gives for a ring token
ReplicasOf(token) == IF token % 2 = 0 THEN <<"h1", "h2">> ELSE <<"h2">>

\* ring.sort(): the tokens of a set in increasing order
RECURSIVE SortedSeq(_)
SortedSeq(S) ==
    IF S = {} THEN <<>>
    ELSE LET m == CHOOSE x \in S : \A y \in S : x <= y
         IN <<m>> \o SortedSeq(S \ {m})

\* a tuple without the elements that fail a test, in order
RECURSIVE FilterSeq(_, _)
FilterSeq(s, keep) ==
    IF s = <<>> THEN <<>>
    ELSE (IF Head(s) \in keep THEN <<Head(s)>> ELSE <<>>) \o FilterSeq(Tail(s), keep)

(***************************************************************************)
(* ExportTask.get_ranges                                                   *)
(***************************************************************************)
\* make_range with the begin clip applied to every range (mutation)
make_range_always_clip(prev, curr, begin_token, end_token) ==
    LET r1 == IF Truthy(begin_token)
              THEN (IF PyLt(curr, begin_token) THEN <<>>
                    ELSE <<begin_token, curr>>)
              ELSE <<prev, curr>>
    IN  IF r1 = <<>> THEN <<>>
        ELSE IF Truthy(end_token)
             THEN (IF PyGt(r1[1], end_token) THEN <<>>
                   ELSE IF PyGt(r1[2], end_token) THEN <<r1[1], end_token>>
                   ELSE r1)
             ELSE r1

\* make_range: the intersection of (prev, curr) and (begin_token, end_token),
\* <<>> (Python None) when the code finds it empty
make_range(prev, curr, begin_token, end_token) ==
    LET r1 == IF Truthy(begin_token)
              THEN (IF PyLt(curr, begin_token) THEN <<>>
                    ELSE IF PyLt(prev, begin_token) THEN <<begin_token, curr>>
                    ELSE <<prev, curr>>)
              ELSE <<prev, curr>>
    IN  IF r1 = <<>> THEN <<>>
        ELSE IF Truthy(end_token)
             THEN (IF PyGt(r1[1], end_token) THEN <<>>
                   ELSE IF PyGt(r1[2], end_token) THEN <<r1[1], end_token>>
                   ELSE r1)
             ELSE r1

\* make_range_data: the up replicas of the local datacenter, else the shell's host
make_range_data(replicas, upLocal) ==
    LET hosts == FilterSeq(replicas, upLocal)
    IN  [hosts |-> IF hosts = <<>> THEN <<hostname>> ELSE hosts,
         attempts |-> 0, rows |-> 0]

\* ranges[key] = data on a dict modelled as a function
DictPut(d, key, data) ==
    [k \in DOMAIN d \cup {key} |-> IF k = key THEN data ELSE d[k]]

EmptyDict == [k \in {} |-> 0]

\* the loop "for token, replicas in ring" from its i-th iteration on, then the
\* wrap-around range
RECURSIVE ring_loop(_, _, _, _, _)
ring_loop(ring, i, previous, ranges, in) ==
    IF i > Len(ring)
    THEN IF previous # None /\ (~Truthy(in.end_token) \/ PyLt(previous, in.end_token))
         THEN DictPut(ranges, <<previous, in.end_token>>,
                      make_range_data(ReplicasOf(ring[1]), in.upLocal))
         ELSE ranges
    ELSE IF ring[i] = get_min_token(in.partitioner)
         THEN ring_loop(ring, i + 1, previous, ranges, in)
         ELSE LET current_range == make_range(previous, ring[i], in.begin_token, in.end_token)
              IN  IF current_range = <<>>
                  THEN ring_loop(ring, i + 1, previous, ranges, in)
                  ELSE ring_loop(ring, i + 1, ring[i],
                                 DictPut(ranges, current_range,
                                         make_range_data(ReplicasOf(ring[i]), in.upLocal)),
                                 in)

get_ranges(in) ==
    LET min_token == get_min_token(in.partitioner)
        begin_token == in.begin_token
        end_token == in.end_token
        ring == SortedSeq(in.ring)
        whole == <<begin_token, end_token>>
    IN  IF Truthy(begin_token) /\ PyLt(begin_token, min_token) THEN EmptyDict
        ELSE IF Truthy(begin_token) /\ Truthy(end_token) /\ PyGt(begin_token, end_token)
        THEN EmptyDict
        ELSE IF ~in.has_token_map \/ min_token = None
        THEN DictPut(EmptyDict, whole, make_range_data(<<>>, in.upLocal))
        ELSE IF Len(ring) = 0
        THEN DictPut(EmptyDict, whole, make_range_data(<<>>, in.upLocal))
        ELSE IF Len(ring) = 1
        THEN DictPut(EmptyDict, whole, make_range_data(ReplicasOf(ring[1]), in.upLocal))
        ELSE ring_loop(ring, 1, None, EmptyDict, in)

\* the inputs of get_ranges: the cluster metadata and the two token options
RangeInputs ==
    { in \in [partitioner : Partitioners, has_token_map : BOOLEAN,
              ring : SUBSET Tokens, begin_token : Tokens \cup {None},
              end_token : Tokens \cup {None}, upLocal : SUBSET Hosts] :
        /\ Cardinality(in.ring) <= MaxRing
        /\ in.ring \subseteq RingTokens(in.partitioner)
        /\ (~in.has_token_map => in.ring = {}) }

RangesInit ==
    /\ rg_pc = "start"
    /\ rg_in \in RangeInputs
    /\ rg_ranges = EmptyDict

\* the range variables when get_ranges is not what is being run
RangesIdle ==
    /\ rg_pc = "idle"
    /\ rg_in = [partitioner |-> "Murmur3Partitioner", has_token_map |-> FALSE,
                ring |-> {}, begin_token |-> None, end_token |-> None, upLocal |-> {}]
    /\ rg_ranges = EmptyDict

\* ExportTask.run calls get_ranges once
GetRanges ==
    /\ rg_pc = "start"
    /\ rg_ranges' = get_ranges(rg_in)
    /\ rg_pc' = "done"
    /\ UNCHANGED <<rg_in, otherThanRanges>>

\* ExportProcess.prepare_export_query: the WHERE clause of the query of a range
InQuery(range, t) ==
    /\ (range[1] # None => t > range[1])
    /\ (range[2] # None => t <= range[2])

(***************************************************************************)
(* COPY TO: ExportTask.export_records and the ExportProcess workers.       *)
(***************************************************************************)
Workers == 1 .. NumProcesses

\* the token_range of a message that carries none (Python None)
NoRange == <<>>

\* the clusters of the modelled export runs: Murmur3 rings of two tokens, the
\* whole ring exported, every replica up and in the local datacenter
ExportClusters ==
    { [partitioner |-> "Murmur3Partitioner", has_token_map |-> TRUE,
       ring |-> {MIN_LONG, 0}, begin_token |-> None, end_token |-> None,
       upLocal |-> Hosts] }

\* the messages a worker sends to the coordinator
\* (None, None): a request has finished
DoneMsg == [range |-> NoRange, kind |-> "None", num |-> 0, about |-> NoRange]
\* (token_range, Exception): an error of one token range
RangeErrorMsg(r) == [range |-> r, kind |-> "Exception", num |-> 0, about |-> r]
\* (token_range, (data, num)): a page of num rows
DataMsg(r, n) == [range |-> r, kind |-> "data", num |-> n, about |-> r]
\* report_error(msg) of get_session: (None, Exception(msg)), where msg names
\* the token range no replica of which could be connected to
ConnectErrorMsg(r) == [range |-> NoRange, kind |-> "Exception", num |-> 0, about |-> r]

\* the permutations of a finite set, as sequences (the order of ranges.keys())
Orders(S) ==
    { f \in [1 .. Cardinality(S) -> S] : \A i, j \in DOMAIN f : i # j => f[i] # f[j] }

\* what the history keeps of a range
NoHist == [pulled |-> 0, resent |-> 0, rows_at_send |-> 0, errors_with_rows |-> 0,
           failed |-> 0]

\* send_work: one assignment per token range over the channels in turn, starting
\* at channel 0 in every call; attempts is bumped after the send
RECURSIVE send_work(_, _, _)
send_work(st, tokens_to_send, i) ==
    IF tokens_to_send = <<>> THEN st
    ELSE LET token_range == Head(tokens_to_send)
             info == st.ranges[token_range]
             sent == [st EXCEPT
                 !.outmsg[i + 1] = Append(@, [range |-> token_range, hosts |-> info.hosts,
                                              attempts |-> info.attempts]),
                 !.ranges[token_range].attempts = @ + 1,
                 !.hist[token_range].resent = IF info.attempts > 0 THEN @ + 1 ELSE @,
                 !.hist[token_range].rows_at_send = info.rows]
         IN  send_work(sent, Tail(tokens_to_send),
                       IF i < NumProcesses - 1 THEN i + 1 ELSE 0)

\* the retry test of export_records with the rows test left out (mutation)
may_retry_ignoring_rows(info) == info.attempts < MaxAttempts

\* the retry test of export_records with one attempt too many (mutation)
may_retry_once_more(info) == info.attempts <= MaxAttempts /\ info.rows = 0

\* the retry test of export_records: attempts left and no row received yet
may_retry(info) == info.attempts < MaxAttempts /\ info.rows = 0

\* the body of the loop "for token_range, result in self.inmsg.recv(...)"
handle_result(st, msg) ==
    IF msg.range = NoRange /\ msg.kind = "None"
    THEN [st EXCEPT !.succeeded = @ + 1]
    ELSE IF msg.kind = "Exception"
    THEN IF msg.range = NoRange
         THEN st   \* 'Error from worker process' is printed
         ELSE LET info == st.ranges[msg.range]
                  noted == IF info.rows > 0
                           THEN [st EXCEPT !.hist[msg.range].errors_with_rows = @ + 1]
                           ELSE st
              IN  IF may_retry(info)
                  THEN send_work(noted, <<msg.range>>, 0)
                  ELSE [noted EXCEPT !.failed = @ + 1,
                                     !.hist[msg.range].failed = @ + 1]
    ELSE [st EXCEPT !.ranges[msg.range].rows = @ + msg.num]

\* inmsg.recv(timeout): one message from each readable channel, in channel order
RECURSIVE recv_loop(_, _)
recv_loop(st, readable) ==
    IF readable = <<>> THEN st
    ELSE LET w == Head(readable)
             popped == [st EXCEPT !.inmsg[w] = Tail(@)]
         IN  recv_loop(handle_result(popped, Head(st.inmsg[w])), Tail(readable))

\* num_live_processes: every worker of the modelled runs stays alive
num_live_processes == NumProcesses

\* the condition of the while loop of export_records
export_loop_condition(failed, succeeded, total_requests) ==
    (failed + succeeded) < total_requests /\ num_live_processes = NumProcesses

ExportState ==
    [ranges |-> ex_ranges, outmsg |-> ex_outmsg, inmsg |-> ex_inmsg,
     succeeded |-> ex_succeeded, failed |-> ex_failed, hist |-> ex_hist]

SetExportState(st) ==
    /\ ex_ranges' = st.ranges
    /\ ex_outmsg' = st.outmsg
    /\ ex_inmsg' = st.inmsg
    /\ ex_succeeded' = st.succeeded
    /\ ex_failed' = st.failed
    /\ ex_hist' = st.hist

\* the state when ExportTask.run has computed the ranges and started the workers
ExportInit ==
    /\ ex_pc = "start"
    /\ \E in \in ExportClusters : ex_ranges = get_ranges(in)
    /\ ex_outmsg = [w \in Workers |-> <<>>]
    /\ ex_inmsg = [w \in Workers |-> <<>>]
    /\ ex_succeeded = 0
    /\ ex_failed = 0
    /\ ex_sessions = [w \in Workers |-> EmptyDict]
    /\ ex_futures = [w \in Workers |-> {}]
    /\ ex_hist = [r \in DOMAIN ex_ranges |-> NoHist]
    /\ ex_format_errors = 0

\* the export variables when no export is being run
ExportIdle ==
    /\ ex_pc = "idle"
    /\ ex_ranges = EmptyDict
    /\ ex_outmsg = [w \in Workers |-> <<>>]
    /\ ex_inmsg = [w \in Workers |-> <<>>]
    /\ ex_succeeded = 0
    /\ ex_failed = 0
    /\ ex_sessions = [w \in Workers |-> EmptyDict]
    /\ ex_futures = [w \in Workers |-> {}]
    /\ ex_hist = EmptyDict
    /\ ex_format_errors = 0

\* export_records up to its loop: send_work(ranges, ranges.keys())
ExportSendAll ==
    /\ ex_pc = "start"
    /\ \E keys \in Orders(DOMAIN ex_ranges) :
           SetExportState(send_work(ExportState, keys, 0))
    /\ ex_pc' = IF export_loop_condition(0, 0, Cardinality(DOMAIN ex_ranges))
                THEN "loop" ELSE "done"
    /\ UNCHANGED <<ex_sessions, ex_futures, ex_format_errors, otherThanExport>>

\* one iteration of the while loop of export_records that receives something
ExportReceive ==
    /\ ex_pc = "loop"
    /\ \E ready \in SUBSET Workers :
           /\ ready # {}
           /\ \A w \in ready : ex_inmsg[w] # <<>>
           /\ LET st == recv_loop(ExportState, SortedSeq(ready))
              IN  /\ SetExportState(st)
                  /\ ex_pc' = IF export_loop_condition(st.failed, st.succeeded,
                                                       Cardinality(DOMAIN ex_ranges))
                              THEN "loop" ELSE "done"
    /\ UNCHANGED <<ex_sessions, ex_futures, ex_format_errors, otherThanExport>>

\* ExportProcess.num_requests: the requests of all the sessions of a worker
RECURSIVE SumRequests(_, _)
SumRequests(sessions, hs) ==
    IF hs = {} THEN 0
    ELSE LET h == CHOOSE x \in hs : TRUE
         IN  sessions[h] + SumRequests(sessions, hs \ {h})

num_requests(w) == SumRequests(ex_sessions[w], DOMAIN ex_sessions[w])

\* the flow-control test of inner_run made with >= (mutation: never above maxrequests)
over_max_requests_strict(n) == n >= MaxRequests

\* the flow-control test of inner_run: sleep instead of pulling an assignment
over_max_requests(n) == n > MaxRequests

\* the sort key of get_session: 0 without a session, else the session's requests
SessionKey(sessions, h) == IF h \in DOMAIN sessions THEN sessions[h] ELSE 0

\* sorted(hosts, key=...): a stable sort of a tuple of hosts by SessionKey
RECURSIVE SortHosts(_, _)
SortHosts(hosts, sessions) ==
    IF hosts = <<>> THEN <<>>
    ELSE LET i == CHOOSE k \in DOMAIN hosts :
                      \A j \in DOMAIN hosts :
                          \/ SessionKey(sessions, hosts[k]) < SessionKey(sessions, hosts[j])
                          \/ /\ SessionKey(sessions, hosts[k]) = SessionKey(sessions, hosts[j])
                             /\ k <= j
             rest == [j \in 1 .. (Len(hosts) - 1) |-> IF j < i THEN hosts[j] ELSE hosts[j + 1]]
         IN  <<hosts[i]>> \o SortHosts(rest, sessions)

\* get_session: the first host, in sorted order, that connect() succeeds on; a
\* host with a session always does, a new one when it accepts the connection.
\* "" when connect() raised for every host
RECURSIVE first_connected(_, _, _)
first_connected(hosts, sessions, accepting) ==
    IF hosts = <<>> THEN ""
    ELSE IF Head(hosts) \in DOMAIN sessions \/ Head(hosts) \in accepting THEN Head(hosts)
    ELSE first_connected(Tail(hosts), sessions, accepting)

\* connect that returns the session of the host without add_request (mutation)
connect_without_add_request(sessions, h) ==
    IF h \in DOMAIN sessions THEN sessions
    ELSE DictPut(sessions, h, 1)

\* connect: add_request on the session of the host, or a new session (requests = 1)
connect(sessions, h) ==
    IF h \in DOMAIN sessions THEN [sessions EXCEPT ![h] = @ + 1]
    ELSE DictPut(sessions, h, 1)

\* the token_range report_error is given when no replica could be connected to
\* (mutation: the range passed on)
connect_error_range_passed(token_range) == RangeErrorMsg(token_range)

\* get_session: self.report_error("Failed to connect to all replicas ...")
connect_error(token_range) == ConnectErrorMsg(token_range)

\* one iteration of inner_run that pulls an assignment: start_request
ExportStartRequest(w) ==
    /\ ex_pc \in {"loop", "done"}
    /\ ~over_max_requests(num_requests(w))
    /\ ex_outmsg[w] # <<>>
    /\ LET msg == Head(ex_outmsg[w])
           hosts == SortHosts(msg.hosts, ex_sessions[w])
       IN  \E accepting \in SUBSET {hosts[i] : i \in DOMAIN hosts} :
               /\ accepting \cap DOMAIN ex_sessions[w] = {}
               /\ LET h == first_connected(hosts, ex_sessions[w], accepting)
                  IN  IF h # ""
                      THEN /\ ex_sessions' = [ex_sessions EXCEPT ![w] = connect(@, h)]
                           /\ ex_futures' = [ex_futures EXCEPT ![w] = @ \cup
                                  {[range |-> msg.range, host |-> h,
                                    attempts |-> msg.attempts, pages |-> 0]}]
                           /\ UNCHANGED ex_inmsg
                      ELSE /\ ex_inmsg' = [ex_inmsg EXCEPT
                                              ![w] = Append(@, connect_error(msg.range))]
                           /\ UNCHANGED <<ex_sessions, ex_futures>>
           /\ ex_hist' = [ex_hist EXCEPT ![msg.range].pulled = @ + 1]
    /\ ex_outmsg' = [ex_outmsg EXCEPT ![w] = Tail(@)]
    /\ UNCHANGED <<ex_pc, ex_ranges, ex_succeeded, ex_failed, ex_format_errors, otherThanExport>>

\* write_rows_to_csv: nothing for an empty page, else the page, or the error
\* raised while formatting it
write_rows_to_csv(token_range, n, format_fails) ==
    IF n = 0 THEN <<>>
    ELSE IF format_fails THEN <<RangeErrorMsg(token_range)>>
    ELSE <<DataMsg(token_range, n)>>

\* result_callback of attach_callbacks: a page of n rows arrives
ExportResultCallback(w) ==
    /\ \E f \in ex_futures[w], n \in 0 .. MaxPageRows, more, format_fails \in BOOLEAN :
           /\ more => f.pages + 1 < MaxPages
           /\ format_fails => (n > 0 /\ ex_format_errors < MaxFormatErrors)
           /\ ex_format_errors' = ex_format_errors + (IF format_fails THEN 1 ELSE 0)
           /\ IF more
              THEN /\ ex_inmsg' = [ex_inmsg EXCEPT ![w] =
                                      @ \o write_rows_to_csv(f.range, n, format_fails)]
                   /\ ex_futures' = [ex_futures EXCEPT ![w] =
                                      (@ \ {f}) \cup {[f EXCEPT !.pages = @ + 1]}]
                   /\ UNCHANGED ex_sessions
              ELSE /\ ex_inmsg' = [ex_inmsg EXCEPT ![w] =
                                      @ \o write_rows_to_csv(f.range, n, format_fails)
                                        \o <<DoneMsg>>]
                   /\ ex_futures' = [ex_futures EXCEPT ![w] = @ \ {f}]
                   /\ ex_sessions' = [ex_sessions EXCEPT ![w][f.host] = @ - 1]
    /\ UNCHANGED <<ex_pc, ex_ranges, ex_outmsg, ex_succeeded, ex_failed, ex_hist, otherThanExport>>

\* err_callback of attach_callbacks: the query of a request fails
ExportErrCallback(w) ==
    /\ \E f \in ex_futures[w] :
           /\ ex_inmsg' = [ex_inmsg EXCEPT ![w] = Append(@, RangeErrorMsg(f.range))]
           /\ ex_futures' = [ex_futures EXCEPT ![w] = @ \ {f}]
           /\ ex_sessions' = [ex_sessions EXCEPT ![w][f.host] = @ - 1]
    /\ UNCHANGED <<ex_pc, ex_ranges, ex_outmsg, ex_succeeded, ex_failed, ex_hist,
                   ex_format_errors, otherThanExport>>

(***************************************************************************)
(* The export writer: ExportWriter.  A file is the sequence of the lines   *)
(* written to it, the line of a row being the number of the row and the    *)
(* header line 0.  The text of a row is one line: the formatters of the    *)
(* values escape control characters.  Files are named by a number: 0 is    *)
(* fname, n is fname.n.  Every file can be opened (no IOError).            *)
(***************************************************************************)
ExportRows == 1 .. MaxExportRows

\* sys.stdout as a destination
Stdout == -1

\* writer.writerow(self.columns)
HeaderLine == 0

\* output.getvalue() of write_rows_to_csv for the rows first .. last
csv_data(first, last) == [k \in 1 .. (last - first + 1) |-> first + k - 1]

\* the options header and maxoutputsize (-1 by default), and whether a file
\* name was given
WriterOptions ==
    {[to_file |-> f, header |-> h, max_output_size |-> m] :
        f \in BOOLEAN, h \in BOOLEAN, m \in {-1} \cup (1 .. MaxOutputSize)}

\* ExportWriter.__init__
ExportWriter ==
    [current_dest |-> None, num_files |-> 0, num_written |-> 0, files |-> (Stdout :> <<>>)]

\* self.write is _write_with_split
with_split(opts) == opts.max_output_size > 0 /\ opts.to_file

\* ExportWriter._get_dest: open(source_name, 'wb') creates or empties the file
get_dest(st, source_name, opts) ==
    IF ~opts.to_file
    THEN [st |-> st, dest |-> Stdout]
    ELSE [st |-> [st EXCEPT !.files = (source_name :> <<>>) @@ @, !.num_files = @ + 1],
          dest |-> source_name]

\* ExportWriter._close_current_dest
close_current_dest(st) ==
    IF st.current_dest # None /\ st.current_dest # Stdout
    THEN [st EXCEPT !.current_dest = None]
    ELSE st

\* ExportWriter._next_dest: fname + '.%d' % (self.num_files,)
next_dest(st, opts) ==
    LET closed == close_current_dest(st)
        got == get_dest(closed, closed.num_files, opts)
    IN  [got.st EXCEPT !.current_dest = got.dest]

\* self.current_dest.output.write
output_write(st, lines) == [st EXCEPT !.files[st.current_dest] = @ \o lines]

\* ExportWriter.open
open(st, opts) ==
    LET got == get_dest(st, 0, opts)
        current == [got.st EXCEPT !.current_dest = got.dest]
    IN  IF opts.header THEN output_write(current, <<HeaderLine>>) ELSE current

\* ExportWriter._write_without_split
write_without_split(st, data, num) == output_write(st, data)

\* the loop of _write_with_split over enumerate(filter(None, data.split(os.linesep)))
RECURSIVE split_loop(_, _, _, _, _, _)
split_loop(st, rows, i, num_remaining, last_switch, opts) ==
    IF i >= Len(rows) THEN [st |-> st, last_switch |-> last_switch]
    ELSE IF i = num_remaining
         THEN split_loop(output_write(next_dest(st, opts), <<rows[i + 1]>>), rows, i + 1,
                         num_remaining + opts.max_output_size, i, opts)
         ELSE split_loop(output_write(st, <<rows[i + 1]>>), rows, i + 1,
                         num_remaining, last_switch, opts)

\* _write_with_split counting, after a split, all the rows of the call as
\* written to the current file
write_with_split_counts_all(st, data, num, opts) ==
    IF st.num_written + num > opts.max_output_size
    THEN LET done == split_loop(st, data, 0, opts.max_output_size - st.num_written, 0, opts)
         IN  [done.st EXCEPT !.num_written = num]
    ELSE output_write([st EXCEPT !.num_written = @ + num], data)

\* ExportWriter._write_with_split
write_with_split(st, data, num, opts) ==
    IF st.num_written + num > opts.max_output_size
    THEN LET done == split_loop(st, data, 0, opts.max_output_size - st.num_written, 0, opts)
         IN  [done.st EXCEPT !.num_written = num - done.last_switch]
    ELSE output_write([st EXCEPT !.num_written = @ + num], data)

\* ExportTask.run: self.writer.open()
WriterOpen ==
    /\ wr_pc = "new"
    /\ wr_writer' = open(wr_writer, wr_opts)
    /\ wr_pc' = "open"
    /\ UNCHANGED <<wr_opts, wr_next, otherThanWriter>>

\* export_records: self.writer.write(data, num) for a partial result of num rows
WriterWrite ==
    /\ wr_pc = "open"
    /\ \E num \in 1 .. (MaxExportRows - wr_next) :
           LET data == csv_data(wr_next + 1, wr_next + num)
           IN  /\ wr_writer' = IF with_split(wr_opts)
                               THEN write_with_split(wr_writer, data, num, wr_opts)
                               ELSE write_without_split(wr_writer, data, num)
               /\ wr_next' = wr_next + num
    /\ UNCHANGED <<wr_pc, wr_opts, otherThanWriter>>

\* ExportTask.close: self.writer.close()
WriterClose ==
    /\ wr_pc = "open"
    /\ wr_writer' = close_current_dest(wr_writer)
    /\ wr_pc' = "closed"
    /\ UNCHANGED <<wr_opts, wr_next, otherThanWriter>>

WriterInit ==
    /\ wr_pc = "new"
    /\ wr_opts \in WriterOptions
    /\ wr_writer = ExportWriter
    /\ wr_next = 0

WriterIdle ==
    /\ wr_pc = "idle"
    /\ wr_opts = [to_file |-> TRUE, header |-> FALSE, max_output_size |-> -1]
    /\ wr_writer = ExportWriter
    /\ wr_next = 0

WriterNext == WriterOpen \/ WriterWrite \/ WriterClose

(***************************************************************************)
(* The retry policy of the export sessions: ExpBackoffRetryPolicy.         *)
(***************************************************************************)
Consistencies == {"ONE", "QUORUM", "ALL"}

\* backoff retrying also when retry_num equals max_attempts
backoff_one_more(retry_num, max_attempts) ==
    IF retry_num > max_attempts THEN {-1}
    ELSE 0 .. (2 ^ (retry_num + 1) - 1)

\* ExpBackoffRetryPolicy.backoff: the values it may return, randrange(0, n)
\* being any of 0 .. n - 1
backoff(retry_num, max_attempts) ==
    IF retry_num >= max_attempts THEN {-1}
    ELSE 0 .. (2 ^ (retry_num + 1) - 1)

\* ExpBackoffRetryPolicy._handle_timeout with the delay that backoff returned:
\* what it returns and the calls of time.sleep it makes
handle_timeout(consistency, retry_num, delay) ==
    IF delay > 0
    THEN [decision |-> "RETRY", consistency |-> consistency, sleeps |-> <<delay>>]
    ELSE IF delay = 0
    THEN [decision |-> "RETRY", consistency |-> consistency, sleeps |-> <<>>]
    ELSE [decision |-> "RETHROW", consistency |-> "None", sleeps |-> <<>>]

\* a timeout handled: the arguments and what _handle_timeout does with them
timeouts(max_attempts) ==
    UNION {{[consistency |-> consistency, retry_num |-> retry_num,
             returned |-> handle_timeout(consistency, retry_num, delay)] :
                consistency \in Consistencies, delay \in backoff(retry_num, max_attempts)} :
           retry_num \in 0 .. MaxRetryNum}

\* ExpBackoffRetryPolicy.on_read_timeout
on_read_timeout ==
    /\ \E handled \in timeouts(rp_policy.max_attempts) :
           /\ rp_call' = [handler |-> "read", consistency |-> handled.consistency,
                          retry_num |-> handled.retry_num]
           /\ rp_result' = [decision |-> handled.returned.decision,
                            consistency |-> handled.returned.consistency]
           /\ rp_sleeps' = handled.returned.sleeps
    /\ UNCHANGED <<rp_policy, otherThanPolicy>>

\* ExpBackoffRetryPolicy.on_write_timeout
on_write_timeout ==
    /\ \E handled \in timeouts(rp_policy.max_attempts) :
           /\ rp_call' = [handler |-> "write", consistency |-> handled.consistency,
                          retry_num |-> handled.retry_num]
           /\ rp_result' = [decision |-> handled.returned.decision,
                            consistency |-> handled.returned.consistency]
           /\ rp_sleeps' = handled.returned.sleeps
    /\ UNCHANGED <<rp_policy, otherThanPolicy>>

NoCall == [handler |-> "none", consistency |-> "None", retry_num |-> 0]
NoResult == [decision |-> "none", consistency |-> "None"]

\* ExpBackoffRetryPolicy.__init__: max_attempts is the option maxattempts
PolicyInit ==
    /\ rp_policy \in [max_attempts : 0 .. MaxPolicyAttempts]
    /\ rp_call = NoCall
    /\ rp_result = NoResult
    /\ rp_sleeps = <<>>

PolicyIdle ==
    /\ rp_policy = [max_attempts |-> 0]
    /\ rp_call = NoCall
    /\ rp_result = NoResult
    /\ rp_sleeps = <<>>

PolicyNext == on_read_timeout \/ on_write_timeout

(***************************************************************************)
(* The rate meter: RateMeter.  Time is counted in update intervals, so     *)
(* that time_difference >= update_interval reads now - last >= 1.          *)
(* current_rate, a float that is only logged, is left out.                 *)
(***************************************************************************)
\* RateMeter.__init__ at time now
RateMeter(now) == [current_record |-> 0, total_records |-> 0, last_checkpoint_time |-> now]

\* update adding the records of the window without closing the window
update_keeps_window(meter, new_checkpoint_time) ==
    [meter EXCEPT !.last_checkpoint_time = new_checkpoint_time,
                  !.total_records = @ + meter.current_record]

\* RateMeter.update
update(meter, new_checkpoint_time) ==
    [meter EXCEPT !.last_checkpoint_time = new_checkpoint_time,
                  !.total_records = @ + meter.current_record,
                  !.current_record = 0]

\* RateMeter.maybe_update at time now; with sleep the remaining time computed
\* is negative and nothing is slept
maybe_update(meter, now) ==
    IF meter.current_record = 0 THEN meter
    ELSE IF now - meter.last_checkpoint_time >= 1 THEN update(meter, now)
    ELSE meter

\* RateMeter.increment
increment(meter, n, now) ==
    maybe_update([meter EXCEPT !.current_record = @ + n], now)

\* time passes
MeterTick ==
    /\ rm_now < MaxTime
    /\ rm_now' = rm_now + 1
    /\ rm_returned' = None
    /\ UNCHANGED <<rm_meter, rm_sum, otherThanMeter>>

MeterIncrement ==
    /\ \E n \in 0 .. MaxIncrement :
           /\ rm_sum + n <= MaxRecords
           /\ rm_meter' = increment(rm_meter, n, rm_now)
           /\ rm_sum' = rm_sum + n
    /\ rm_returned' = None
    /\ UNCHANGED <<rm_now, otherThanMeter>>

MeterMaybeUpdate ==
    /\ rm_meter' = maybe_update(rm_meter, rm_now)
    /\ rm_returned' = None
    /\ UNCHANGED <<rm_now, rm_sum, otherThanMeter>>

\* RateMeter.get_total_records
MeterGetTotalRecords ==
    /\ rm_meter' = update(rm_meter, rm_now)
    /\ rm_returned' = rm_meter'.total_records
    /\ UNCHANGED <<rm_now, rm_sum, otherThanMeter>>

MeterInit ==
    /\ rm_now = 0
    /\ rm_meter = RateMeter(0)
    /\ rm_sum = 0
    /\ rm_returned = None

MeterIdle ==
    /\ rm_now = -1
    /\ rm_meter = RateMeter(0)
    /\ rm_sum = 0
    /\ rm_returned = None

MeterNext == MeterTick \/ MeterIncrement \/ MeterMaybeUpdate \/ MeterGetTotalRecords

(***************************************************************************)
(* The start of a COPY command: CopyTask.__init__, ExportTask.run and      *)
(* ImportTask.run up to start_processes.                                   *)
(***************************************************************************)
TableColumns == {"k", "v"}
PrimaryKeys == {{"k"}, {"k", "v"}}

Commands ==
    [direction : {"to", "from"},
     numprocesses : 1 .. MaxNumProcesses,
     unrecognized : BOOLEAN,            \* options left over by parse_options
     columns : SUBSET TableColumns,     \* the columns of the command, none for all
     skipcols : SUBSET TableColumns,
     primary_key : PrimaryKeys,
     ranges : BOOLEAN,                  \* get_ranges gave a range
     writer : BOOLEAN]                  \* the output file opens

NoTask == [num_processes |-> 0, channels |-> 0, columns |-> {}, valid_columns |-> {},
           processes |-> <<>>, started |-> 0]

\* CopyTask.get_columns
get_columns(columns) == IF columns = {} THEN TableColumns ELSE columns

\* CopyTask.__init__: the feeder is added when the direction is 'in'; the
\* tasks pass 'to' and 'from'
CopyTask(input) ==
    LET num_processes == IF input.direction = "in" THEN input.numprocesses + 1
                                                   ELSE input.numprocesses
    IN  [num_processes |-> num_processes,
         channels |-> num_processes,
         columns |-> get_columns(input.columns),
         valid_columns |-> {},
         processes |-> <<>>,
         started |-> 0]

\* ExportTask.__init__
ExportTaskNew ==
    /\ tk_pc = "new"
    /\ tk_in.direction = "to"
    /\ tk_task' = CopyTask(tk_in)
    /\ tk_pc' = "constructed"
    /\ UNCHANGED <<tk_in, tk_sent, otherThanTask>>

\* ImportTask.__init__
ImportTaskNew ==
    /\ tk_pc = "new"
    /\ tk_in.direction = "from"
    /\ tk_task' = [CopyTask(tk_in) EXCEPT
                      !.valid_columns = get_columns(tk_in.columns) \ tk_in.skipcols]
    /\ tk_pc' = "constructed"
    /\ UNCHANGED <<tk_in, tk_sent, otherThanTask>>

\* start_processes
start_processes(task) == [task EXCEPT !.started = Len(task.processes)]

\* ExportTask.run up to export_records
ExportRun ==
    /\ tk_pc = "constructed"
    /\ tk_in.direction = "to"
    /\ IF \/ tk_in.unrecognized
          \/ tk_task.columns = {}
          \/ ~tk_in.ranges
          \/ ~tk_in.writer
       THEN /\ tk_pc' = "returned"
            /\ UNCHANGED tk_task
       ELSE /\ tk_task' = start_processes([tk_task EXCEPT
                              !.processes = [i \in 1 .. tk_task.num_processes |-> "ExportProcess"]])
            /\ tk_pc' = "started"
    /\ UNCHANGED <<tk_in, tk_sent, otherThanTask>>

\* ImportTask.run without the test of the primary key
ImportRun_no_key_check ==
    /\ tk_pc = "constructed"
    /\ tk_in.direction = "from"
    /\ IF \/ tk_in.unrecognized
          \/ tk_task.valid_columns = {}
       THEN /\ tk_pc' = "returned"
            /\ UNCHANGED tk_task
       ELSE /\ tk_task' = start_processes([tk_task EXCEPT
                              !.processes = [i \in 1 .. tk_task.num_processes |->
                                                IF i < tk_task.num_processes
                                                THEN "ImportProcess" ELSE "FeedingProcess"]])
            /\ tk_pc' = "started"
    /\ UNCHANGED <<tk_in, tk_sent, otherThanTask>>

\* ImportTask.run up to import_records
ImportRun ==
    /\ tk_pc = "constructed"
    /\ tk_in.direction = "from"
    /\ IF \/ tk_in.unrecognized
          \/ tk_task.valid_columns = {}
          \/ \E c \in tk_in.primary_key : c \notin tk_task.valid_columns
       THEN /\ tk_pc' = "returned"
            /\ UNCHANGED tk_task
       ELSE /\ tk_task' = start_processes([tk_task EXCEPT
                              !.processes = [i \in 1 .. tk_task.num_processes |->
                                                IF i < tk_task.num_processes
                                                THEN "ImportProcess" ELSE "FeedingProcess"]])
            /\ tk_pc' = "started"
    /\ UNCHANGED <<tk_in, tk_sent, otherThanTask>>

\* a message on a channel of the task: send_work of the export, a chunk or a
\* result of a child
TaskSend ==
    /\ tk_pc = "started"
    /\ tk_task.started > 0
    /\ tk_sent < MaxSent
    /\ tk_sent' = tk_sent + 1
    /\ UNCHANGED <<tk_pc, tk_in, tk_task, otherThanTask>>

TaskInit ==
    /\ tk_pc = "new"
    /\ tk_in \in Commands
    /\ tk_task = NoTask
    /\ tk_sent = 0

TaskIdle ==
    /\ tk_pc = "idle"
    /\ tk_in = [direction |-> "to", numprocesses |-> 1, unrecognized |-> FALSE,
                columns |-> {}, skipcols |-> {}, primary_key |-> {"k"},
                ranges |-> FALSE, writer |-> FALSE]
    /\ tk_task = NoTask
    /\ tk_sent = 0

TaskNext == ExportTaskNew \/ ImportTaskNew \/ ExportRun \/ ImportRun \/ TaskSend

(***************************************************************************)
(* The pages of the requests of one export worker: attach_callbacks.  The  *)
(* driver completes a future on its I/O thread, which invokes the          *)
(* callbacks one after the other; result_callback is two steps of that     *)
(* thread, start_fetching_next_page and write_rows_to_csv, and the next    *)
(* page may arrive between them.                                           *)
(***************************************************************************)
PageRanges == 1 .. MaxPageRanges

NoFuture == [state |-> "none", page |-> 0, rows |-> 0, has_more_pages |-> FALSE]

NoCallback == [range |-> 0, page |-> 0, rows |-> 0, has_more_pages |-> FALSE, overlap |-> FALSE]

\* session.execute_async and attach_callbacks of start_request
PageRequest(r) ==
    /\ pg_futures[r].state = "none"
    /\ pg_futures' = [pg_futures EXCEPT ![r] = [NoFuture EXCEPT !.state = "fetching", !.page = 1]]
    /\ UNCHANGED <<pg_thread, pg_inmsg, pg_output, otherThanPaging>>

\* the database returns the page that is fetched
PageResponse(r) ==
    /\ pg_futures[r].state = "fetching"
    /\ \E n \in 0 .. MaxPageRows, more \in BOOLEAN :
           /\ more => pg_futures[r].page < MaxPages
           /\ pg_futures' = [pg_futures EXCEPT ![r] =
                                [@ EXCEPT !.state = "arrived", !.rows = n, !.has_more_pages = more]]
    /\ UNCHANGED <<pg_thread, pg_inmsg, pg_output, otherThanPaging>>

\* result_callback entered by a thread that finds another callback running:
\* it sends its page at once
result_callback_any_thread(r) ==
    /\ pg_futures[r].state = "arrived"
    /\ LET f == pg_futures[r]
       IN  IF pg_thread = NoCallback
           THEN /\ pg_thread' = [range |-> r, page |-> f.page, rows |-> f.rows,
                                 has_more_pages |-> f.has_more_pages, overlap |-> FALSE]
                /\ UNCHANGED pg_inmsg
           ELSE /\ pg_inmsg' = pg_inmsg \o
                       (IF f.rows = 0 THEN <<>>
                        ELSE <<[range |-> r, page |-> f.page, kind |-> "data", overlap |-> FALSE]>>)
                /\ UNCHANGED pg_thread
    /\ pg_futures' = [pg_futures EXCEPT ![r] =
                         IF @.has_more_pages
                         THEN [NoFuture EXCEPT !.state = "fetching", !.page = pg_futures[r].page + 1]
                         ELSE [NoFuture EXCEPT !.state = "done"]]
    /\ UNCHANGED <<pg_output, otherThanPaging>>

\* result_callback, to future.start_fetching_next_page()
result_callback(r) ==
    /\ pg_thread = NoCallback
    /\ pg_futures[r].state = "arrived"
    /\ LET f == pg_futures[r]
       IN  pg_thread' = [range |-> r, page |-> f.page, rows |-> f.rows,
                         has_more_pages |-> f.has_more_pages, overlap |-> FALSE]
    /\ pg_futures' = [pg_futures EXCEPT ![r] =
                         IF @.has_more_pages
                         THEN [NoFuture EXCEPT !.state = "fetching", !.page = pg_futures[r].page + 1]
                         ELSE [NoFuture EXCEPT !.state = "done"]]
    /\ UNCHANGED <<pg_inmsg, pg_output, otherThanPaging>>

\* the rest of result_callback: write_rows_to_csv and, after the last page,
\* the message (None, None)
PageWriteRows ==
    /\ pg_thread # NoCallback
    /\ LET c == pg_thread
           overlap == /\ pg_futures[c.range].state = "arrived"
                      /\ pg_futures[c.range].rows > 0
       IN  pg_inmsg' = pg_inmsg
               \o (IF c.rows = 0 THEN <<>>
                   ELSE <<[range |-> c.range, page |-> c.page, kind |-> "data",
                           overlap |-> overlap]>>)
               \o (IF c.has_more_pages THEN <<>>
                   ELSE <<[range |-> 0, page |-> 0, kind |-> "None", overlap |-> FALSE]>>)
    /\ pg_thread' = NoCallback
    /\ UNCHANGED <<pg_futures, pg_output, otherThanPaging>>

\* export_records: a message of the channel; the data of a page is written
PageReceive ==
    /\ pg_inmsg # <<>>
    /\ pg_inmsg' = Tail(pg_inmsg)
    /\ pg_output' = IF Head(pg_inmsg).kind = "data"
                    THEN Append(pg_output, Head(pg_inmsg))
                    ELSE pg_output
    /\ UNCHANGED <<pg_futures, pg_thread, otherThanPaging>>

PagingInit ==
    /\ pg_futures = [r \in PageRanges |-> NoFuture]
    /\ pg_thread = NoCallback
    /\ pg_inmsg = <<>>
    /\ pg_output = <<>>

PagingIdle ==
    /\ pg_futures = [r \in PageRanges |-> [NoFuture EXCEPT !.state = "idle"]]
    /\ pg_thread = NoCallback
    /\ pg_inmsg = <<>>
    /\ pg_output = <<>>

PagingNext ==
    \/ \E r \in PageRanges : PageRequest(r) \/ PageResponse(r) \/ result_callback(r)
    \/ PageWriteRows
    \/ PageReceive

(***************************************************************************)
(* The loops of the coordinators with children that can die:               *)
(* export_records and import_records, with the channels as counters.  A    *)
(* send on a channel blocks while the pipe is full; the coordinator keeps  *)
(* the read end of every pipe, so a send to a dead child does not fail.    *)
(***************************************************************************)
Processes == 1 .. NumProcesses

\* CopyTask.num_live_processes
live_processes(alive) == Cardinality({p \in Processes : alive[p]})

NoResults == [done |-> 0, error |-> 0, result |-> 0]

\* send_work(ranges, ranges.keys()) of export_records, one send at a time
LiveSendWork ==
    /\ lv_pc = "send_all"
    /\ lv_outmsg[lv_coord.i] < PipeCapacity
    /\ lv_outmsg' = [lv_outmsg EXCEPT ![lv_coord.i] = @ + 1]
    /\ lv_coord' = [lv_coord EXCEPT
                       !.to_send = @ - 1,
                       !.i = IF lv_coord.i < NumProcesses THEN lv_coord.i + 1 ELSE 1]
    /\ lv_pc' = IF lv_coord.to_send = 1 THEN "loop" ELSE "send_all"
    /\ UNCHANGED <<lv_dir, lv_alive, lv_inflight, lv_inmsg, lv_reported, otherThanLiveness>>

\* an iteration of the loop of export_records: the condition, and a message
\* if there is one
LiveExportLoop ==
    /\ lv_pc = "loop"
    /\ lv_dir = "to"
    /\ IF lv_coord.awaited > 0 /\ live_processes(lv_alive) = NumProcesses
       THEN \/ /\ lv_inmsg.done > 0
               /\ lv_inmsg' = [lv_inmsg EXCEPT !.done = @ - 1]
               /\ lv_coord' = [lv_coord EXCEPT !.awaited = @ - 1]
               /\ lv_pc' = "loop"
            \/ /\ lv_inmsg.error > 0
               /\ lv_inmsg' = [lv_inmsg EXCEPT !.error = @ - 1]
               /\ IF lv_coord.retries > 0
                  THEN /\ lv_coord' = [lv_coord EXCEPT !.retries = @ - 1]
                       /\ lv_pc' = "send"
                  ELSE /\ lv_coord' = [lv_coord EXCEPT !.awaited = @ - 1]
                       /\ lv_pc' = "loop"
       ELSE /\ lv_pc' = "check"
            /\ UNCHANGED <<lv_inmsg, lv_coord>>
    /\ UNCHANGED <<lv_dir, lv_alive, lv_outmsg, lv_inflight, lv_reported, otherThanLiveness>>

\* send_work(ranges, [token_range]) of the loop: always the first channel
LiveRetrySend ==
    /\ lv_pc = "send"
    /\ lv_outmsg[1] < PipeCapacity
    /\ lv_outmsg' = [lv_outmsg EXCEPT ![1] = @ + 1]
    /\ lv_pc' = "loop"
    /\ UNCHANGED <<lv_dir, lv_alive, lv_inflight, lv_inmsg, lv_coord, lv_reported,
                   otherThanLiveness>>

\* an iteration of the loop of import_records: the condition,
\* receive_results, and the break when a process is not running
LiveImportLoop ==
    /\ lv_pc = "loop"
    /\ lv_dir = "from"
    /\ IF lv_coord.awaited > 0
       THEN /\ \E n \in {0, 1} :
                   /\ n <= lv_inmsg.result
                   /\ lv_inmsg' = [lv_inmsg EXCEPT !.result = @ - n]
                   /\ lv_coord' = [lv_coord EXCEPT !.awaited = @ - n]
            /\ lv_pc' = IF live_processes(lv_alive) = NumProcesses THEN "loop" ELSE "check"
       ELSE /\ lv_pc' = "check"
            /\ UNCHANGED <<lv_inmsg, lv_coord>>
    /\ UNCHANGED <<lv_dir, lv_alive, lv_outmsg, lv_inflight, lv_reported, otherThanLiveness>>

\* after the loops: the message about the children that died
LiveCheck ==
    /\ lv_pc = "check"
    /\ lv_reported' = (live_processes(lv_alive) < NumProcesses)
    /\ lv_pc' = "done"
    /\ UNCHANGED <<lv_dir, lv_alive, lv_outmsg, lv_inflight, lv_inmsg, lv_coord,
                   otherThanLiveness>>

\* an export worker takes a range from its channel
LiveChildPull(p) ==
    /\ lv_alive[p]
    /\ lv_outmsg[p] > 0
    /\ lv_outmsg' = [lv_outmsg EXCEPT ![p] = @ - 1]
    /\ lv_inflight' = [lv_inflight EXCEPT ![p] = @ + 1]
    /\ UNCHANGED <<lv_dir, lv_pc, lv_alive, lv_inmsg, lv_coord, lv_reported, otherThanLiveness>>

\* a child sends a result: the end or the error of a range, the result of
\* an import worker or of the feeder
LiveChildResult(p) ==
    /\ lv_alive[p]
    /\ lv_inflight[p] > 0
    /\ lv_inflight' = [lv_inflight EXCEPT ![p] = @ - 1]
    /\ IF lv_dir = "to"
       THEN \/ lv_inmsg' = [lv_inmsg EXCEPT !.done = @ + 1]
            \/ lv_inmsg' = [lv_inmsg EXCEPT !.error = @ + 1]
       ELSE lv_inmsg' = [lv_inmsg EXCEPT !.result = @ + 1]
    /\ UNCHANGED <<lv_dir, lv_pc, lv_alive, lv_outmsg, lv_coord, lv_reported, otherThanLiveness>>

\* a child process dies
LiveChildDies(p) ==
    /\ lv_alive[p]
    /\ lv_pc # "done"
    /\ lv_alive' = [lv_alive EXCEPT ![p] = FALSE]
    /\ UNCHANGED <<lv_dir, lv_pc, lv_outmsg, lv_inflight, lv_inmsg, lv_coord, lv_reported,
                   otherThanLiveness>>

LivenessInit ==
    /\ lv_dir \in {"to", "from"}
    /\ lv_alive = [p \in Processes |-> TRUE]
    /\ lv_outmsg = [p \in Processes |-> 0]
    /\ lv_inmsg = NoResults
    /\ lv_reported = FALSE
    /\ IF lv_dir = "to"
       THEN /\ lv_pc = "send_all"
            /\ lv_inflight = [p \in Processes |-> 0]
            /\ \E n \in 1 .. MaxLiveRanges :
                   lv_coord = [to_send |-> n, i |-> 1, awaited |-> n, retries |-> n * (MaxAttempts - 1)]
       ELSE /\ lv_pc = "loop"
            /\ lv_inflight \in [Processes -> 1 .. MaxLiveResults]
            /\ lv_inflight[NumProcesses] = 1
            /\ \E n \in 1 .. NumProcesses * MaxLiveResults :
                   /\ n = lv_inflight[1] + lv_inflight[NumProcesses]
                          + (IF NumProcesses > 2 THEN lv_inflight[2] ELSE 0)
                          + (IF NumProcesses > 3 THEN lv_inflight[3] ELSE 0)
                   /\ lv_coord = [to_send |-> 0, i |-> 1, awaited |-> n, retries |-> 0]

LivenessIdle ==
    /\ lv_dir = "idle"
    /\ lv_pc = "done"
    /\ lv_alive = [p \in Processes |-> TRUE]
    /\ lv_outmsg = [p \in Processes |-> 0]
    /\ lv_inflight = [p \in Processes |-> 0]
    /\ lv_inmsg = NoResults
    /\ lv_coord = [to_send |-> 0, i |-> 1, awaited |-> 0, retries |-> 0]
    /\ lv_reported = FALSE

LivenessNext ==
    \/ LiveSendWork
    \/ LiveExportLoop
    \/ LiveRetrySend
    \/ LiveImportLoop
    \/ LiveCheck
    \/ \E p \in Processes : LiveChildPull(p) \/ LiveChildResult(p) \/ LiveChildDies(p)

(***************************************************************************)
(* The readers of the feeder, header off: FilesReader over one file and    *)
(* PipeReader over the rows of stdin, which end with None.  The rows of    *)
(* the input are 1 .. rows; none of them is empty.                         *)
(***************************************************************************)
ReaderInputs ==
    [rows : 0 .. MaxInputRows,
     skip_rows : 0 .. MaxSkipRows,
     max_rows : -1 .. MaxInputRows,
     chunk_size : 1 .. ChunkSize]

\* FilesReader.__init__ and start, PipeReader.__init__: pos is the place in
\* the source
Reader == [pos |-> 0, num_read |-> 0, exhausted |-> FALSE, returned |-> <<>>]

\* the loop of FilesReader.read_rows, k passes left
RECURSIVE FilesReader_loop(_, _, _)
FilesReader_loop(reader, input, k) ==
    IF k = 0 THEN reader
    ELSE IF reader.pos = input.rows
    THEN [reader EXCEPT !.exhausted = TRUE]                  \* StopIteration: next_source
    ELSE LET row == reader.pos + 1
             read == [reader EXCEPT !.pos = row, !.num_read = @ + 1]
         IN  IF 0 <= input.max_rows /\ input.max_rows < read.num_read
             THEN [read EXCEPT !.exhausted = TRUE]           \* next_source
             ELSE FilesReader_loop(
                      IF read.num_read > input.skip_rows
                      THEN [read EXCEPT !.returned = Append(@, row)]
                      ELSE read,
                      input, k - 1)

\* read_rows with as many passes as chunk_size, whatever max_rows is
FilesReader_read_rows_chunk_size(reader, input, max_rows) ==
    IF reader.exhausted THEN reader
    ELSE FilesReader_loop(reader, input, input.chunk_size)

\* FilesReader.read_rows
FilesReader_read_rows(reader, input, max_rows) ==
    IF reader.exhausted THEN reader
    ELSE FilesReader_loop(reader, input,
                          IF max_rows < input.chunk_size THEN max_rows ELSE input.chunk_size)

\* the loop of PipeReader.read_rows, k passes left
RECURSIVE PipeReader_loop(_, _, _)
PipeReader_loop(reader, input, k) ==
    IF k = 0 THEN reader
    ELSE IF reader.pos = input.rows
    THEN [reader EXCEPT !.exhausted = TRUE]                  \* row is None
    ELSE LET row == reader.pos + 1
             read == [reader EXCEPT !.pos = row, !.num_read = @ + 1]
         IN  IF 0 <= input.max_rows /\ input.max_rows < read.num_read
             THEN [read EXCEPT !.exhausted = TRUE]
             ELSE PipeReader_loop(
                      IF read.num_read < input.skip_rows
                      THEN read
                      ELSE [read EXCEPT !.returned = Append(@, row)],
                      input, k - 1)

\* PipeReader.read_rows
PipeReader_read_rows(reader, input, max_rows) ==
    PipeReader_loop(reader, input,
                    IF max_rows < input.chunk_size THEN max_rows ELSE input.chunk_size)

\* the feeder reads from a FilesReader
FilesReadRows ==
    /\ rd_in.rows >= 0
    /\ ~rd_files.exhausted
    /\ \E max_rows \in 1 .. IngestRate :
           rd_files' = FilesReader_read_rows(rd_files, rd_in, max_rows)
    /\ UNCHANGED <<rd_in, rd_pipe, otherThanReaders>>

\* the feeder reads from a PipeReader
PipeReadRows ==
    /\ rd_in.rows >= 0
    /\ ~rd_pipe.exhausted
    /\ \E max_rows \in 1 .. IngestRate :
           rd_pipe' = PipeReader_read_rows(rd_pipe, rd_in, max_rows)
    /\ UNCHANGED <<rd_in, rd_files, otherThanReaders>>

ReadersInit ==
    /\ rd_in \in ReaderInputs
    /\ rd_files = Reader
    /\ rd_pipe = Reader

ReadersIdle ==
    /\ rd_in = [rows |-> -1, skip_rows |-> 0, max_rows |-> -1, chunk_size |-> 1]
    /\ rd_files = Reader
    /\ rd_pipe = Reader

ReadersNext == FilesReadRows \/ PipeReadRows

(***************************************************************************)
(* The feeder on its own: FeedingProcess.inner_run over one file, the      *)
(* workers taking the chunks from their channels as they come.  A pass of  *)
(* the loop "for ch in channels" is a step; with no worker channel the     *)
(* loop "while not reader.exhausted" has no pass to make.                  *)
(***************************************************************************)
FeederInputs ==
    [rows : 0 .. MaxFeedRows,
     skip_rows : {0},
     max_rows : {-1},
     chunk_size : 1 .. ChunkSize,
     ingest_rate : 1 .. IngestRate,
     numprocesses : 1 .. MaxNumProcesses]

\* self.outmsg.channels[:-1] of ImportTask.run
worker_channels(input) ==
    CopyTask([direction |-> "from", numprocesses |-> input.numprocesses,
              columns |-> {}]).channels - 1

\* FeedingProcess.__init__
FeedingProcess ==
    [pc |-> "run", reader |-> Reader, current_record |-> 0, chunk_id |-> 0, sent |-> 0,
     ch |-> 1]

\* a pass of "for ch in channels": the rate budget, read_rows and send_chunk
FeedPass ==
    /\ fd_feeder.pc = "run"
    /\ ~fd_feeder.reader.exhausted
    /\ worker_channels(fd_in) > 0
    /\ LET max_rows == fd_in.ingest_rate - fd_feeder.current_record
           next_ch == IF fd_feeder.ch < worker_channels(fd_in) THEN fd_feeder.ch + 1 ELSE 1
       IN  \E rolled \in BOOLEAN :
             IF max_rows <= 0
             THEN \* send_meter.maybe_update(sleep=False)
                  /\ fd_feeder' = [fd_feeder EXCEPT
                                      !.current_record = IF rolled THEN 0 ELSE @,
                                      !.ch = next_ch]
                  /\ UNCHANGED fd_chunks
             ELSE \E reader \in {FilesReader_read_rows(fd_feeder.reader, fd_in, max_rows)} :
                  LET rows == SubSeq(reader.returned, Len(fd_feeder.reader.returned) + 1,
                                     Len(reader.returned))
                  IN  IF rows # <<>>
                      THEN \* send_chunk
                           /\ fd_feeder' = [fd_feeder EXCEPT
                                  !.reader = reader,
                                  !.chunk_id = @ + 1,
                                  !.current_record = IF rolled THEN 0 ELSE @ + Len(rows),
                                  !.sent = @ + Len(rows),
                                  !.ch = IF reader.exhausted THEN 1 ELSE next_ch]
                           /\ fd_chunks' = Append(fd_chunks,
                                  [id |-> fd_feeder.chunk_id + 1, rows |-> rows,
                                   ch |-> fd_feeder.ch, max_rows |-> max_rows])
                      ELSE /\ ~rolled
                           /\ fd_feeder' = [fd_feeder EXCEPT
                                  !.reader = reader,
                                  !.ch = IF reader.exhausted THEN 1 ELSE next_ch]
                           /\ UNCHANGED fd_chunks
    /\ UNCHANGED <<fd_in, fd_outmsg, fd_inmsg, otherThanFeeding>>

\* self.outmsg.send(FeedingProcessResult(sent, reader)), then the feeder is in
\* self.inmsg.recv()
FeedResult ==
    /\ fd_feeder.pc = "run"
    /\ fd_feeder.reader.exhausted
    /\ fd_outmsg' = Append(fd_outmsg, [kind |-> "FeedingProcessResult", sent |-> fd_feeder.sent])
    /\ fd_feeder' = [fd_feeder EXCEPT !.pc = "recv"]
    /\ UNCHANGED <<fd_in, fd_chunks, fd_inmsg, otherThanFeeding>>

\* self.inmsg.recv() returns
FeedReceive ==
    /\ fd_feeder.pc = "recv"
    /\ fd_inmsg = "None"
    /\ fd_inmsg' = "read"
    /\ fd_feeder' = [fd_feeder EXCEPT !.pc = "exit"]
    /\ UNCHANGED <<fd_in, fd_chunks, fd_outmsg, otherThanFeeding>>

\* import_records: self.outmsg.channels[i].send(None) for the feeder, when
\* the loop of the coordinator has ended
FeedPoison ==
    /\ fd_feeder.pc \in {"run", "recv"}
    /\ fd_inmsg = "empty"
    /\ fd_inmsg' = "None"
    /\ UNCHANGED <<fd_in, fd_feeder, fd_chunks, fd_outmsg, otherThanFeeding>>

FeedingInit ==
    /\ fd_in \in FeederInputs
    /\ fd_feeder = FeedingProcess
    /\ fd_chunks = <<>>
    /\ fd_outmsg = <<>>
    /\ fd_inmsg = "empty"

FeedingIdle ==
    /\ fd_in = [rows |-> 0, skip_rows |-> 0, max_rows |-> -1, chunk_size |-> 1,
                ingest_rate |-> 1, numprocesses |-> 1]
    /\ fd_feeder = [FeedingProcess EXCEPT !.pc = "idle"]
    /\ fd_chunks = <<>>
    /\ fd_outmsg = <<>>
    /\ fd_inmsg = "empty"

FeedingNext == FeedPass \/ FeedResult \/ FeedReceive \/ FeedPoison

(***************************************************************************)
(* update_chunk of an import worker, called for one chunk by the main      *)
(* thread (report_error of make_statement) and by the thread of the driver *)
(* that runs the callbacks of the batches already sent.  The method takes  *)
(* no lock: chunk['imported'] += len(rows) is a read and a write, and the  *)
(* test reads again; the threads interleave between them.                  *)
(***************************************************************************)
Threads == {"main", "callback"}

NoUpdate == [pc |-> "idle", num_rows |-> 0, imported |-> 0]

\* a thread enters update_chunk(rows, chunk) with rows not counted yet
UpdateChunkCall(t) ==
    /\ uc_thread[t].pc = "idle"
    /\ \E n \in 1 .. (uc_chunk.len - uc_rows) :
           /\ uc_thread' = [uc_thread EXCEPT ![t] = [pc |-> "load", num_rows |-> n, imported |-> 0]]
           /\ uc_rows' = uc_rows + n
    /\ UNCHANGED <<uc_chunk, uc_out, otherThanUpdate>>

\* chunk['imported'] += len(rows): the read
UpdateChunkLoad(t) ==
    /\ uc_thread[t].pc = "load"
    /\ uc_thread' = [uc_thread EXCEPT ![t].pc = "store", ![t].imported = uc_chunk.imported]
    /\ UNCHANGED <<uc_chunk, uc_rows, uc_out, otherThanUpdate>>

\* chunk['imported'] += len(rows): the write
UpdateChunkStore(t) ==
    /\ uc_thread[t].pc = "store"
    /\ uc_chunk' = [uc_chunk EXCEPT !.imported = uc_thread[t].imported + uc_thread[t].num_rows]
    /\ uc_thread' = [uc_thread EXCEPT ![t].pc = "test"]
    /\ UNCHANGED <<uc_rows, uc_out, otherThanUpdate>>

\* if chunk['imported'] == num_chunk_rows: self.outmsg.send(ImportProcessResult(...))
UpdateChunkTest(t) ==
    /\ uc_thread[t].pc = "test"
    /\ uc_out' = IF uc_chunk.imported = uc_chunk.len THEN uc_out + 1 ELSE uc_out
    /\ uc_thread' = [uc_thread EXCEPT ![t] = NoUpdate]
    /\ UNCHANGED <<uc_chunk, uc_rows, otherThanUpdate>>

UpdateInit ==
    /\ \E len \in 2 .. MaxChunkRows : uc_chunk = [len |-> len, imported |-> 0]
    /\ uc_thread = [t \in Threads |-> NoUpdate]
    /\ uc_rows = 0
    /\ uc_out = 0

UpdateIdle ==
    /\ uc_chunk = [len |-> 0, imported |-> 0]
    /\ uc_thread = [t \in Threads |-> NoUpdate]
    /\ uc_rows = 0
    /\ uc_out = 0

UpdateNext ==
    \E t \in Threads :
        UpdateChunkCall(t) \/ UpdateChunkLoad(t) \/ UpdateChunkStore(t) \/ UpdateChunkTest(t)

(***************************************************************************)
(* COPY FROM: ImportTask.import_records, the FeedingProcess and the        *)
(* ImportProcess workers.                                                  *)
(*                                                                         *)
(* The input is one file of NumRows rows read by a FilesReader (no header, *)
(* skiprows = 0, maxrows = -1).  A row is known by its number; what the    *)
(* program does with it is fixed by its kind:                              *)
(*   "ok"      converts, routes and binds                                  *)
(*   "bad"     ImportConversion.convert_row raises ParseError              *)
(*   "nokey"   computing the token of its partition key raises             *)
(*   "nobind"  binding it in make_statement raises, so that make_statement *)
(*             returns None and session.execute_async(None) raises         *)
(* csv.reader yields one row per line of a chunk and the reader of the     *)
(* feeder raises nothing.  A pass of a loop and a callback of the driver   *)
(* are one step each; the callbacks of a worker run between the passes of  *)
(* its loop over the batches of a chunk.  Intermediate results are bound   *)
(* with \E x \in {e} so that they are computed once.                       *)
(***************************************************************************)
Rows == 1 .. NumRows

RowKinds == {"ok", "bad", "nokey", "nobind"}

\* CopyTask.__init__ tests direction == 'in', which ImportTask never passes
\* ('from'): num_processes is the option numprocesses, the last child is the feeder
ImportWorkers == 1 .. (NumProcesses - 1)
Feeder == NumProcesses
Children == 1 .. NumProcesses

\* the options of the modelled runs: chunksize with each error maximum either
\* unset (-1, the default) or set, and chunksize 1 with maxparseerrors 0
ImportOptions ==
    {[chunksize |-> ChunkSize, maxparseerrors |-> p, maxinserterrors |-> i] :
        p \in {-1, MaxErrorsOption}, i \in {-1, MaxErrorsOption}}
    \cup {[chunksize |-> 1, maxparseerrors |-> 0, maxinserterrors |-> -1]}

\* messages of the import channels
PoisonPill == [kind |-> "None", id |-> 0, rows |-> <<>>]
ChunkMsg(id, rows) == [kind |-> "chunk", id |-> id, rows |-> rows]
ImportProcessResult(n) ==
    [kind |-> "ImportProcessResult", n |-> n, name |-> "", rows |-> <<>>,
     attempts |-> 0, final |-> FALSE]
ImportTaskError(name, rows, attempts, final) ==
    [kind |-> "ImportTaskError", n |-> 0, name |-> name, rows |-> rows,
     attempts |-> attempts, final |-> final]
FeedingProcessResult(sent) ==
    [kind |-> "FeedingProcessResult", n |-> sent, name |-> "", rows |-> <<>>,
     attempts |-> 0, final |-> FALSE]

\* the elements of a sequence that pass a test on their kind, in order
RECURSIVE SelectKind(_, _, _)
SelectKind(rows, kinds, wanted) ==
    IF rows = <<>> THEN <<>>
    ELSE (IF kinds[Head(rows)] \in wanted THEN <<Head(rows)>> ELSE <<>>)
         \o SelectKind(Tail(rows), kinds, wanted)

\* rows[i:j] of Python, on a sequence
Slice(rows, i, j) ==
    [k \in 1 .. ((IF j < Len(rows) THEN j ELSE Len(rows)) - i) |-> rows[i + k]]

Range(s) == {s[i] : i \in DOMAIN s}

(***************************************************************************)
(* The feeder.                                                             *)
(***************************************************************************)
\* FilesReader.read_rows(max_rows) on a reader at row pos: the rows read and
\* whether the source ran out (StopIteration, then no next source)
read_rows(pos, max_rows) ==
    LET want == IF max_rows < im_opts.chunksize THEN max_rows ELSE im_opts.chunksize
        left == NumRows - pos
    IN  IF left >= want
        THEN [rows |-> [k \in 1 .. want |-> pos + k], exhausted |-> FALSE]
        ELSE [rows |-> [k \in 1 .. left |-> pos + k], exhausted |-> TRUE]

\* one pass of the body of "for ch in channels" of FeedingProcess.inner_run
\* that reads rows: read_rows, then send_chunk when there are rows
FeederSend ==
    /\ im_feeder.pc = "run"
    /\ ~im_feeder.exhausted
    /\ ImportWorkers # {}
    /\ IngestRate - im_feeder.current_record > 0
    /\ LET got == read_rows(im_feeder.pos, IngestRate - im_feeder.current_record)
           n == Len(got.rows)
           ch == im_feeder.next_ch
       IN  \* ch.send blocks while the pipe of the worker is full
           /\ n > 0 => Len(im_outmsg[ch]) < PipeCapacity
           /\ \E rolled \in BOOLEAN :
                  im_feeder' = [im_feeder EXCEPT
                      !.pos = @ + n,
                      !.exhausted = got.exhausted,
                      !.chunk_id = IF n > 0 THEN @ + 1 ELSE @,
                      !.sent = @ + n,
                      !.current_record = IF rolled /\ n > 0 THEN 0 ELSE @ + n,
                      !.next_ch = IF ch < NumProcesses - 1 THEN ch + 1 ELSE 1]
           /\ im_outmsg' = IF n > 0
                           THEN [im_outmsg EXCEPT
                                    ![ch] = Append(@, ChunkMsg(im_feeder.chunk_id + 1, got.rows))]
                           ELSE im_outmsg
    /\ UNCHANGED <<im_kinds, im_opts, im_inmsg, im_chunks, im_job, im_batches, im_worker_pc, im_coord,
                   im_err_file, im_delivered, im_emitted, otherThanImport>>

\* the passes of the loop made while the rate budget is empty, up to the one in
\* which send_meter.maybe_update opens a new window
FeederThrottled ==
    /\ im_feeder.pc = "run"
    /\ ~im_feeder.exhausted
    /\ ImportWorkers # {}
    /\ IngestRate - im_feeder.current_record <= 0
    /\ im_feeder' = [im_feeder EXCEPT
           !.current_record = 0,
           !.next_ch = IF @ < NumProcesses - 1 THEN @ + 1 ELSE 1]
    /\ UNCHANGED <<im_kinds, im_opts, im_outmsg, im_inmsg, im_chunks, im_job, im_batches, im_worker_pc,
                   im_coord, im_err_file, im_delivered, im_emitted, otherThanImport>>

\* the end of inner_run: FeedingProcessResult(sent, reader) to the parent
FeederFinish ==
    /\ im_feeder.pc = "run"
    /\ im_feeder.exhausted
    /\ im_feeder' = [im_feeder EXCEPT !.pc = "wait"]
    /\ im_inmsg' = [im_inmsg EXCEPT ![Feeder] = Append(@, FeedingProcessResult(im_feeder.sent))]
    /\ UNCHANGED <<im_kinds, im_opts, im_outmsg, im_chunks, im_job, im_batches, im_worker_pc, im_coord,
                   im_err_file, im_delivered, im_emitted, otherThanImport>>

\* self.inmsg.recv() returns the poison pill: the feeder ends
FeederExit ==
    /\ im_feeder.pc = "wait"
    /\ im_outmsg[Feeder] # <<>>
    /\ im_feeder' = [im_feeder EXCEPT !.pc = "exit"]
    /\ im_outmsg' = [im_outmsg EXCEPT ![Feeder] = Tail(@)]
    /\ UNCHANGED <<im_kinds, im_opts, im_inmsg, im_chunks, im_job, im_batches, im_worker_pc, im_coord,
                   im_err_file, im_delivered, im_emitted, otherThanImport>>

(***************************************************************************)
(* The import workers.  The operators below thread the state of the chunk  *)
(* being worked on: ch is the dict chunk seen through len(chunk['rows'])   *)
(* and chunk['imported'], out the messages sent on self.outmsg, emitted    *)
(* the ImportProcessResult messages sent for the chunk (history).          *)
(***************************************************************************)
\* the ring and the replicas of the TokenMap of the modelled cluster
import_ring == <<2, 3>>

\* TokenMap.get_ring_pos: bisect_right(ring, val), wrapped to 0 at the end
get_ring_pos(ring, val) ==
    LET idx == Cardinality({i \in DOMAIN ring : ring[i] <= val})
    IN  IF idx < Len(ring) THEN idx ELSE 0

\* tm.pk_to_token_value of the partition key of a row
pk_to_token_value(row) == row

\* tm.replicas[ring_pos]; every host is up and in the local data centre, so
\* filter_replicas keeps them all (in a random order)
replicas_at(ring_pos) == ReplicasOf(import_ring[ring_pos + 1])

RingPositions == 0 .. (Len(import_ring) - 1)

\* update_chunk with the test imported >= len(chunk['rows'])
update_chunk_at_least(ws, num_rows) ==
    LET imported == ws.imported + num_rows
    IN  IF imported >= ws.len
        THEN [ws EXCEPT !.imported = imported,
                        !.out = Append(@, ImportProcessResult(ws.len)),
                        !.emitted = @ + 1]
        ELSE [ws EXCEPT !.imported = imported]

\* ImportProcess.update_chunk
update_chunk(ws, num_rows) ==
    LET imported == ws.imported + num_rows
    IN  IF imported = ws.len
        THEN [ws EXCEPT !.imported = imported,
                        !.out = Append(@, ImportProcessResult(ws.len)),
                        !.emitted = @ + 1]
        ELSE [ws EXCEPT !.imported = imported]

\* ImportProcess.report_error
report_error(ws, name, rows, attempts, final) ==
    LET sent == [ws EXCEPT !.out = Append(@, ImportTaskError(name, rows, attempts, final))]
    IN  IF final THEN update_chunk(sent, Len(rows)) ELSE sent

\* convert_rows reporting the rows that fail to convert and keeping them among
\* the converted rows
convert_rows_keeps_failed(ws, rows, kinds) ==
    LET errors == SelectKind(rows, kinds, {"bad"})
    IN  [ws |-> IF errors # <<>>
                THEN update_chunk([ws EXCEPT !.out = Append(@, ImportTaskError("ParseError", errors, 1, TRUE))],
                                  Len(errors))
                ELSE ws,
         rows |-> rows]

\* ImportProcess.convert_rows: the converted rows; the rows that fail to
\* convert are reported as one ParseError (all with the same message) and
\* counted with update_chunk against the chunk as it was received
convert_rows(ws, rows, kinds) ==
    LET errors == SelectKind(rows, kinds, {"bad"})
        converted_rows == SelectKind(rows, kinds, RowKinds \ {"bad"})
    IN  [ws |-> IF errors # <<>>
                THEN update_chunk([ws EXCEPT !.out = Append(@, ImportTaskError("ParseError", errors, 1, TRUE))],
                                  Len(errors))
                ELSE ws,
         rows |-> converted_rows]

\* the rows of a sequence that fall on a ring position
RECURSIVE RowsAt(_, _)
RowsAt(rows, ring_pos) ==
    IF rows = <<>> THEN <<>>
    ELSE (IF get_ring_pos(import_ring, pk_to_token_value(Head(rows))) = ring_pos
          THEN <<Head(rows)>> ELSE <<>>) \o RowsAt(Tail(rows), ring_pos)

\* the rows in one batch, whatever their number
Chop_unsliced(rows, replicas) ==
    IF rows = <<>> THEN <<>> ELSE <<[replicas |-> replicas, rows |-> rows]>>

\* rows[i:i + max_batch_size] for i in xrange(0, len(rows), max_batch_size)
RECURSIVE Chop(_, _)
Chop(rows, replicas) ==
    IF rows = <<>> THEN <<>>
    ELSE <<[replicas |-> replicas, rows |-> Slice(rows, 0, MaxBatchSize)]>>
         \o Chop(Slice(rows, MaxBatchSize, Len(rows)), replicas)

\* whether the rows of a ring position are batched by ring position
batch_by_ring_pos(num_rows) == num_rows > MinBatchSize

\* the batches of the groups large enough to be sent to all their replicas
RECURSIVE BatchesByRingPos(_, _)
BatchesByRingPos(rows, ring_pos) ==
    IF ring_pos >= Len(import_ring) THEN <<>>
    ELSE (IF batch_by_ring_pos(Len(RowsAt(rows, ring_pos)))
          THEN Chop(RowsAt(rows, ring_pos), replicas_at(ring_pos))
          ELSE <<>>) \o BatchesByRingPos(rows, ring_pos + 1)

\* rows_by_replica[replica]: the rows of the small groups whose first valid
\* replica (pick) is that replica, in the order of the ring positions
RECURSIVE RowsByReplica(_, _, _, _)
RowsByReplica(rows, pick, replica, ring_pos) ==
    IF ring_pos >= Len(import_ring) THEN <<>>
    ELSE (IF ~batch_by_ring_pos(Len(RowsAt(rows, ring_pos))) /\ pick[ring_pos] = replica
          THEN RowsAt(rows, ring_pos)
          ELSE <<>>) \o RowsByReplica(rows, pick, replica, ring_pos + 1)

\* the batches of rows_by_replica, the dict iterated in the order hosts
RECURSIVE BatchesByReplica(_, _, _)
BatchesByReplica(rows, pick, hosts) ==
    IF hosts = <<>> THEN <<>>
    ELSE Chop(RowsByReplica(rows, pick, Head(hosts), 0), <<Head(hosts)>>)
         \o BatchesByReplica(rows, pick, Tail(hosts))

\* ImportProcess.split_into_batches, run to its end: the rows without a
\* token are reported as one ParseError, the others are batched
split_into_batches(ws, rows, kinds, pick, hosts) ==
    LET errors == SelectKind(rows, kinds, {"nokey"})
        routed == SelectKind(rows, kinds, RowKinds \ {"nokey"})
    IN  [ws |-> IF errors # <<>>
                THEN update_chunk([ws EXCEPT !.out = Append(@, ImportTaskError("ParseError", errors, 1, TRUE))],
                                  Len(errors))
                ELSE ws,
         batches |-> BatchesByRingPos(routed, 0) \o BatchesByReplica(routed, pick, hosts)]

\* inner_make_statement binds every row of a batch
can_bind(rows, kinds) == \A i \in DOMAIN rows : kinds[rows[i]] # "nobind"

\* the state of a chunk as the operators above see it
ChunkState(id) ==
    [len |-> im_chunks[id].len, imported |-> im_chunks[id].imported,
     out |-> <<>>, emitted |-> im_emitted[id]]

\* a chunk as it is received: {'id': ..., 'rows': rows, 'imported': 0}
ReceivedChunk(chunk) ==
    [len |-> Len(chunk.rows), imported |-> 0, out |-> <<>>, emitted |-> 0]

\* the chunk variables after a step that left chunk id in state ws
SetChunkState(w, id, ws) ==
    /\ im_chunks' = [im_chunks EXCEPT ![id] = [len |-> ws.len, imported |-> ws.imported]]
    /\ im_emitted' = [im_emitted EXCEPT ![id] = ws.emitted]
    /\ im_inmsg' = [im_inmsg EXCEPT ![w] = @ \o ws.out]

\* a worker between two chunks
NoJob == [active |-> FALSE, id |-> 0, rows |-> <<>>, batches |-> <<>>]

\* self.inmsg.recv() returns a chunk: chunk['rows'] = convert_rows(conv, chunk),
\* then split_into_batches(chunk, conv, tm) up to its first batch
ImportProcessChunk(w) ==
    /\ im_worker_pc[w] = "run"
    /\ ~im_job[w].active
    /\ im_outmsg[w] # <<>>
    /\ Head(im_outmsg[w]).kind = "chunk"
    /\ \E pick \in [RingPositions -> Hosts], hosts \in Orders(Hosts),
          chunk \in {Head(im_outmsg[w])} :
           /\ \A p \in RingPositions : pick[p] \in Range(replicas_at(p))
           /\ \E conv \in {convert_rows(ReceivedChunk(chunk), chunk.rows, im_kinds)} :
              \E split \in {split_into_batches([conv.ws EXCEPT !.len = Len(conv.rows)],
                                               conv.rows, im_kinds, pick, hosts)} :
                  /\ SetChunkState(w, chunk.id, split.ws)
                  /\ im_job' = [im_job EXCEPT ![w] =
                         IF split.batches = <<>> THEN NoJob
                         ELSE [active |-> TRUE, id |-> chunk.id, rows |-> conv.rows,
                               batches |-> split.batches]]
    /\ im_outmsg' = [im_outmsg EXCEPT ![w] = Tail(@)]
    /\ UNCHANGED <<im_kinds, im_opts, im_feeder, im_batches, im_worker_pc, im_coord, im_err_file,
                   im_delivered, otherThanImport>>

\* one pass of the loop of inner_run over the batches of a chunk:
\* make_statement, execute_async, add_callbacks.  When the batch cannot be
\* bound make_statement reports its rows and returns None, execute_async(None)
\* raises and inner_run reports chunk['rows']
ImportSubmitBatch(w) ==
    /\ im_worker_pc[w] = "run"
    /\ im_job[w].active
    /\ LET job == im_job[w]
           batch == Head(job.batches)
       IN  IF can_bind(batch.rows, im_kinds)
           THEN /\ im_batches' = [im_batches EXCEPT ![w] =
                        @ \cup {[id |-> job.id, rows |-> batch.rows, attempts |-> 1,
                                 replicas |-> batch.replicas]}]
                /\ im_job' = [im_job EXCEPT ![w] =
                        IF Tail(job.batches) = <<>> THEN NoJob
                        ELSE [job EXCEPT !.batches = Tail(@)]]
                /\ UNCHANGED <<im_chunks, im_emitted, im_inmsg>>
           ELSE /\ \E reported \in {report_error(ChunkState(job.id), "TypeError",
                                                   batch.rows, 1, TRUE)} :
                    \E raised \in {report_error(reported, "AttributeError",
                                                job.rows, 1, TRUE)} :
                        SetChunkState(w, job.id, raised)
                /\ im_job' = [im_job EXCEPT ![w] = NoJob]
                /\ UNCHANGED im_batches
    /\ UNCHANGED <<im_kinds, im_opts, im_feeder, im_outmsg, im_worker_pc, im_coord, im_err_file,
                   im_delivered, otherThanImport>>

\* self.inmsg.recv() returns None: the worker leaves its loop
ImportProcessExit(w) ==
    /\ im_worker_pc[w] = "run"
    /\ ~im_job[w].active
    /\ im_outmsg[w] # <<>>
    /\ Head(im_outmsg[w]).kind = "None"
    /\ im_worker_pc' = [im_worker_pc EXCEPT ![w] = "exit"]
    /\ im_outmsg' = [im_outmsg EXCEPT ![w] = Tail(@)]
    /\ UNCHANGED <<im_kinds, im_opts, im_feeder, im_inmsg, im_chunks, im_job, im_batches, im_coord,
                   im_err_file, im_delivered, im_emitted, otherThanImport>>

\* ImportProcess.result_callback: the batch was written
ImportResultCallback(w) ==
    /\ im_worker_pc[w] = "run"
    /\ \E batch \in im_batches[w] :
           /\ \E updated \in {update_chunk(ChunkState(batch.id), Len(batch.rows))} :
                  SetChunkState(w, batch.id, updated)
           /\ im_batches' = [im_batches EXCEPT ![w] = @ \ {batch}]
           /\ im_delivered' = im_delivered \cup Range(batch.rows)
    /\ UNCHANGED <<im_kinds, im_opts, im_feeder, im_outmsg, im_job, im_worker_pc, im_coord,
                   im_err_file, otherThanImport>>

\* err_callback with the test attempts > max_attempts
err_is_final_late(attempts) == attempts > MaxAttempts

\* err_callback: whether the error of a batch is the last one
err_is_final(attempts) == attempts >= MaxAttempts

\* ImportProcess.err_callback: the batch failed; it is sent again unless
\* this was its last attempt
ImportErrCallback(w) ==
    /\ im_worker_pc[w] = "run"
    /\ \E batch \in im_batches[w] :
           LET final == err_is_final(batch.attempts)
           IN  /\ \E reported \in {report_error(ChunkState(batch.id), "WriteTimeout",
                                                  batch.rows, batch.attempts, final)} :
                      SetChunkState(w, batch.id, reported)
               /\ im_batches' = [im_batches EXCEPT ![w] =
                      IF final THEN @ \ {batch}
                      ELSE (@ \ {batch}) \cup {[batch EXCEPT !.attempts = @ + 1]}]
    /\ UNCHANGED <<im_kinds, im_opts, im_feeder, im_outmsg, im_job, im_worker_pc, im_coord,
                   im_err_file, im_delivered, otherThanImport>>

(***************************************************************************)
(* A worker with one chunk, to its batches: convert_rows, then             *)
(* split_into_batches run to its end, make_batch giving each batch the id  *)
(* of the chunk.                                                           *)
(***************************************************************************)
ChunkRows == 1 .. MaxChunkRows

\* the chunks the feeder can send: consecutive rows of the input
Chunks ==
    {[id |-> id, rows |-> [k \in 1 .. (last - first + 1) |-> first + k - 1]] :
        id \in 1 .. MaxChunkRows, first \in ChunkRows, last \in ChunkRows}

\* ImportProcess.make_batch
make_batch(batch_id, rows) == [id |-> batch_id, rows |-> rows, attempts |-> 1]

NoBatches == [converted |-> <<>>, batches |-> <<>>]

\* the body of the loop of inner_run for a chunk, without the statements
SplitChunk ==
    /\ sb_pc = "chunk"
    /\ \E pick \in [RingPositions -> Hosts], hosts \in Orders(Hosts) :
           /\ \A p \in RingPositions : pick[p] \in Range(replicas_at(p))
           /\ \E conv \in {convert_rows(ReceivedChunk(sb_chunk), sb_chunk.rows, sb_kinds)} :
              \E split \in {split_into_batches([conv.ws EXCEPT !.len = Len(conv.rows)],
                                               conv.rows, sb_kinds, pick, hosts)} :
                  sb_result' =
                      [converted |-> conv.rows,
                       batches |-> [i \in DOMAIN split.batches |->
                                       [replicas |-> split.batches[i].replicas,
                                        batch |-> make_batch(sb_chunk.id, split.batches[i].rows)]]]
    /\ sb_pc' = "split"
    /\ UNCHANGED <<sb_chunk, sb_kinds, otherThanBatching>>

\* the worker takes the next chunk
NextChunk ==
    /\ sb_pc = "split"
    /\ sb_pc' = "chunk"
    /\ sb_chunk' \in Chunks
    /\ sb_chunk'.rows # <<>>
    /\ sb_result' = NoBatches
    /\ UNCHANGED <<sb_kinds, otherThanBatching>>

BatchingInit ==
    /\ sb_pc = "chunk"
    /\ sb_chunk \in Chunks
    /\ sb_chunk.rows # <<>>
    /\ sb_kinds \in [ChunkRows -> RowKinds]
    /\ sb_result = NoBatches

BatchingIdle ==
    /\ sb_pc = "idle"
    /\ sb_chunk = [id |-> 0, rows |-> <<>>]
    /\ sb_kinds = [r \in ChunkRows |-> "ok"]
    /\ sb_result = NoBatches

BatchingNext == SplitChunk \/ NextChunk

(***************************************************************************)
(* The import coordinator: ImportTask.import_records.                      *)
(***************************************************************************)
\* the names of the exceptions ImportTaskError.is_parse_error recognises
ParseErrorNames == {"ValueError", "TypeError", "ParseError", "IndexError", "ReadError"}

\* is_parse_error without the TypeError prefix
is_parse_error_no_type(name) == name \in ParseErrorNames \ {"TypeError"}

is_parse_error(name) == name \in ParseErrorNames

\* ImportErrorHandler.add_failed_rows
RECURSIVE add_failed_rows(_, _)
add_failed_rows(eh, rows) ==
    IF rows = <<>> THEN eh
    ELSE add_failed_rows([eh EXCEPT !.num_rows_failed = @ + 1,
                                    !.err_file[Head(rows)] = @ + 1], Tail(rows))

\* handle_error with the rows of every error written to the error file
handle_error_writes_all(eh, err) ==
    IF is_parse_error(err.name)
    THEN add_failed_rows([eh EXCEPT !.parse_errors = @ + Len(err.rows)], err.rows)
    ELSE add_failed_rows([eh EXCEPT !.insert_errors = @ + Len(err.rows)], err.rows)

\* handle_error without the write of the rows of a final insert error
handle_error_counts_only(eh, err) ==
    IF is_parse_error(err.name)
    THEN add_failed_rows([eh EXCEPT !.parse_errors = @ + Len(err.rows)], err.rows)
    ELSE [eh EXCEPT !.insert_errors = @ + Len(err.rows)]

\* ImportErrorHandler.handle_error
handle_error(eh, err) ==
    IF is_parse_error(err.name)
    THEN add_failed_rows([eh EXCEPT !.parse_errors = @ + Len(err.rows)], err.rows)
    ELSE IF ~err.final
         THEN [eh EXCEPT !.insert_errors = @ + Len(err.rows)]
         ELSE add_failed_rows([eh EXCEPT !.insert_errors = @ + Len(err.rows)], err.rows)

\* max_exceeded giving up when a maximum is reached, not exceeded
max_exceeded_when_reached(eh) ==
    \/ (eh.insert_errors >= im_opts.maxinserterrors /\ im_opts.maxinserterrors >= 0)
    \/ (eh.parse_errors >= im_opts.maxparseerrors /\ im_opts.maxparseerrors >= 0)

\* ImportErrorHandler.max_exceeded
max_exceeded(eh) ==
    \/ (eh.insert_errors > im_opts.maxinserterrors /\ im_opts.maxinserterrors >= 0)
    \/ (eh.parse_errors > im_opts.maxparseerrors /\ im_opts.maxparseerrors >= 0)

\* the loop of receive_results over the objects of the readable channels
RECURSIVE receive_loop(_, _)
receive_loop(st, readable) ==
    IF readable = <<>> THEN st
    ELSE LET c == Head(readable)
             result == Head(st.inmsg[c])
             popped == [st EXCEPT !.inmsg[c] = Tail(@)]
         IN  receive_loop(
                 IF result.kind = "ImportProcessResult"
                 THEN [popped EXCEPT !.aggregate = @ + result.n]
                 ELSE IF result.kind = "ImportTaskError"
                 THEN [popped EXCEPT !.eh = handle_error(@, result)]
                 ELSE [popped EXCEPT !.fed = TRUE, !.sent = result.n],
                 Tail(readable))

\* the condition of the while loop of import_records
import_loop_condition(fed, total_records, sent) == ~fed \/ total_records < sent

\* ImportTask.all_processes_running: no child of the modelled runs dies
all_processes_running == TRUE

\* the end of import_records: None to every child
send_poison(outmsg) == [c \in Children |-> Append(outmsg[c], PoisonPill)]

ErrorHandlerState ==
    [parse_errors |-> im_coord.parse_errors, insert_errors |-> im_coord.insert_errors,
     num_rows_failed |-> im_coord.num_rows_failed, err_file |-> im_err_file]

\* the coordinator after a pass of its loop that left it with st and the meter
\* with current_record and total_records
AfterReceive(st, current_record, total_records) ==
    LET break == max_exceeded(st.eh) \/ ~all_processes_running
        stay == ~break /\ import_loop_condition(st.fed, total_records, st.sent)
    IN  /\ im_coord' = [pc |-> IF stay THEN "loop" ELSE "done",
                        broke |-> break,
                        fed |-> st.fed, sent |-> st.sent,
                        current_record |-> current_record,
                        total_records |-> total_records,
                        parse_errors |-> st.eh.parse_errors,
                        insert_errors |-> st.eh.insert_errors,
                        num_rows_failed |-> st.eh.num_rows_failed]
        /\ im_err_file' = st.eh.err_file
        /\ im_inmsg' = st.inmsg
        /\ im_outmsg' = IF stay THEN im_outmsg ELSE send_poison(im_outmsg)

\* one pass of the loop of import_records in which some channels are
\* readable: receive_results, receive_meter.increment, then the loop tests
ImportReceive ==
    /\ im_coord.pc = "loop"
    /\ \E ready \in SUBSET Children, rolled \in BOOLEAN :
           /\ ready # {}
           /\ \A c \in ready : im_inmsg[c] # <<>>
           /\ \E st \in {receive_loop([inmsg |-> im_inmsg, eh |-> ErrorHandlerState,
                                        aggregate |-> 0, fed |-> im_coord.fed,
                                        sent |-> im_coord.sent], SortedSeq(ready))} :
                  LET current == im_coord.current_record + st.aggregate
                  IN  IF rolled /\ current # 0
                      THEN AfterReceive(st, 0, im_coord.total_records + current)
                      ELSE AfterReceive(st, current, im_coord.total_records)
    /\ UNCHANGED <<im_kinds, im_opts, im_feeder, im_chunks, im_job, im_batches, im_worker_pc, im_delivered,
                   im_emitted, otherThanImport>>

\* the passes of the loop in which no channel is readable, up to the one in
\* which receive_meter.maybe_update adds the records of the window to the total
ImportReceiveTimeout ==
    /\ im_coord.pc = "loop"
    /\ im_coord.current_record # 0
    /\ \E st \in {[inmsg |-> im_inmsg, eh |-> ErrorHandlerState, aggregate |-> 0,
                    fed |-> im_coord.fed, sent |-> im_coord.sent]} :
           AfterReceive(st, 0, im_coord.total_records + im_coord.current_record)
    /\ UNCHANGED <<im_kinds, im_opts, im_feeder, im_chunks, im_job, im_batches, im_worker_pc, im_delivered,
                   im_emitted, otherThanImport>>

(***************************************************************************)
(* The import as a whole.                                                  *)
(***************************************************************************)
ChunkIds == 1 .. NumRows

ImportInit ==
    /\ im_kinds \in [Rows -> RowKinds]
    /\ im_opts \in ImportOptions
    /\ im_feeder = [pc |-> "run", pos |-> 0, exhausted |-> FALSE, chunk_id |-> 0,
                    sent |-> 0, current_record |-> 0, next_ch |-> 1]
    /\ im_outmsg = [c \in Children |-> <<>>]
    /\ im_inmsg = [c \in Children |-> <<>>]
    /\ im_chunks = [id \in ChunkIds |-> [len |-> 0, imported |-> 0]]
    /\ im_job = [w \in ImportWorkers |-> NoJob]
    /\ im_batches = [w \in ImportWorkers |-> {}]
    /\ im_worker_pc = [w \in ImportWorkers |-> "run"]
    /\ im_coord = [pc |-> "loop", broke |-> FALSE, fed |-> FALSE, sent |-> 0,
                   current_record |-> 0, total_records |-> 0, parse_errors |-> 0,
                   insert_errors |-> 0, num_rows_failed |-> 0]
    /\ im_err_file = [r \in Rows |-> 0]
    /\ im_delivered = {}
    /\ im_emitted = [id \in ChunkIds |-> 0]

\* the import variables when no import is being run
ImportIdle ==
    /\ im_kinds = [r \in Rows |-> "ok"]
    /\ im_opts = [chunksize |-> ChunkSize, maxparseerrors |-> -1, maxinserterrors |-> -1]
    /\ im_feeder = [pc |-> "idle", pos |-> 0, exhausted |-> FALSE, chunk_id |-> 0,
                    sent |-> 0, current_record |-> 0, next_ch |-> 1]
    /\ im_outmsg = [c \in Children |-> <<>>]
    /\ im_inmsg = [c \in Children |-> <<>>]
    /\ im_chunks = [id \in ChunkIds |-> [len |-> 0, imported |-> 0]]
    /\ im_job = [w \in ImportWorkers |-> NoJob]
    /\ im_batches = [w \in ImportWorkers |-> {}]
    /\ im_worker_pc = [w \in ImportWorkers |-> "idle"]
    /\ im_coord = [pc |-> "idle", broke |-> FALSE, fed |-> FALSE, sent |-> 0,
                   current_record |-> 0, total_records |-> 0, parse_errors |-> 0,
                   insert_errors |-> 0, num_rows_failed |-> 0]
    /\ im_err_file = [r \in Rows |-> 0]
    /\ im_delivered = {}
    /\ im_emitted = [id \in ChunkIds |-> 0]

ImportNext ==
    \/ FeederSend
    \/ FeederThrottled
    \/ FeederFinish
    \/ FeederExit
    \/ \E w \in ImportWorkers : ImportProcessChunk(w)
    \/ \E w \in ImportWorkers : ImportSubmitBatch(w)
    \/ \E w \in ImportWorkers : ImportProcessExit(w)
    \/ \E w \in ImportWorkers : ImportResultCallback(w)
    \/ \E w \in ImportWorkers : ImportErrCallback(w)
    \/ ImportReceive
    \/ ImportReceiveTimeout

(***************************************************************************)
(* COPY FROM STDIN: the coordinator sends the rows of STDIN to the feeder  *)
(* before it receives anything (send_stdin_rows), the feeder reads them    *)
(* with a PipeReader and sends chunks to the workers, the workers send     *)
(* errors and results to the coordinator.  Every send is a blocking write  *)
(* to a pipe that holds PipeCapacity objects.  The modelled runs have no   *)
(* header, skiprows = 0, maxrows = -1, an ingest rate above the number of  *)
(* rows, no maximum of errors, and every batch is written.  A row is what  *)
(* the conversion does with it: "ok" or "bad" (ParseError).                *)
(***************************************************************************)
\* the worker channels the feeder is given, and the ImportProcess of each
StdinWorkers == 1 .. worker_channels([numprocesses |-> si_np])

StdinChannels == 1 .. (MaxNumProcesses - 1)

\* the end of input and the poison pill
PipeNone == "None"

\* what the feeder sends to a worker, and the poison pill of a worker
StdinChunk(rows) == [kind |-> "chunk", rows |-> rows]

StdinPill == [kind |-> "None", rows |-> <<>>]

NoBadRows(rows) == \A i \in DOMAIN rows : rows[i] = "ok"

NumBadRows(rows) == Cardinality({i \in DOMAIN rows : rows[i] = "bad"})

\* OneWayChannel.send returns only when the pipe takes the object
can_send(channel) == Len(channel) < PipeCapacity

\* send_stdin_rows: self.outmsg.channels[-1].send(row) for one more row
StdinSendRow ==
    /\ si_coord.pc = "stdin"
    /\ si_coord.left > 0
    /\ can_send(si_pipe)
    /\ \E row \in {"ok", "bad"} : si_pipe' = Append(si_pipe, row)
    /\ si_coord' = [si_coord EXCEPT !.left = @ - 1]
    /\ UNCHANGED <<si_np, si_feeder, si_chunks, si_results, si_feed_out, si_worker,
                   otherThanStdin>>

\* send_stdin_rows: self.outmsg.channels[-1].send(None), then the loop of
\* import_records starts
StdinSendEnd ==
    /\ si_coord.pc = "stdin"
    /\ si_coord.left = 0
    /\ can_send(si_pipe)
    /\ si_pipe' = Append(si_pipe, PipeNone)
    /\ si_coord' = [si_coord EXCEPT !.pc = "loop"]
    /\ UNCHANGED <<si_np, si_feeder, si_chunks, si_results, si_feed_out, si_worker,
                   otherThanStdin>>

\* PipeReader.read_rows, one self.inmsg.recv(): the chunk is complete at
\* chunk_size rows or at None
StdinReadRow ==
    /\ si_feeder.pc = "read"
    /\ si_pipe # <<>>
    /\ si_pipe' = Tail(si_pipe)
    /\ LET row == Head(si_pipe)
           exhausted == row = PipeNone
           rows == IF exhausted THEN si_feeder.rows ELSE Append(si_feeder.rows, row)
           complete == exhausted \/ Len(rows) = ChunkSize
       IN  si_feeder' = [si_feeder EXCEPT
               !.rows = rows,
               !.exhausted = exhausted,
               !.pc = IF ~complete THEN "read"
                      ELSE IF rows # <<>> THEN "send"
                      ELSE IF exhausted THEN "result" ELSE "read"]
    /\ UNCHANGED <<si_np, si_coord, si_chunks, si_results, si_feed_out, si_worker,
                   otherThanStdin>>

\* send_chunk: ch.send({'id': ..., 'rows': rows, 'imported': 0}), then the
\* next channel of "for ch in channels", or the end of the loop
StdinSendChunk ==
    /\ si_feeder.pc = "send"
    /\ can_send(si_chunks[si_feeder.ch])
    /\ si_chunks' = [si_chunks EXCEPT ![si_feeder.ch] = Append(@, StdinChunk(si_feeder.rows))]
    /\ si_feeder' = [si_feeder EXCEPT
           !.rows = <<>>,
           !.sent = @ + Len(si_feeder.rows),
           !.ch = IF si_feeder.ch \in StdinWorkers \ {Cardinality(StdinWorkers)}
                  THEN @ + 1 ELSE 1,
           !.pc = IF si_feeder.exhausted THEN "result" ELSE "read"]
    /\ UNCHANGED <<si_np, si_coord, si_pipe, si_results, si_feed_out, si_worker,
                   otherThanStdin>>

\* FeedingProcess.inner_run after its loop: self.outmsg.send(FeedingProcessResult(...))
StdinFeederResult ==
    /\ si_feeder.pc = "result"
    /\ can_send(si_feed_out)
    /\ si_feed_out' = Append(si_feed_out, FeedingProcessResult(si_feeder.sent))
    /\ si_feeder' = [si_feeder EXCEPT !.pc = "wait"]
    /\ UNCHANGED <<si_np, si_coord, si_pipe, si_chunks, si_results, si_worker,
                   otherThanStdin>>

\* FeedingProcess.inner_run: self.inmsg.recv() returns the poison pill
StdinFeederExit ==
    /\ si_feeder.pc = "wait"
    /\ si_pipe # <<>>
    /\ si_pipe' = Tail(si_pipe)
    /\ si_feeder' = [si_feeder EXCEPT !.pc = "exit"]
    /\ UNCHANGED <<si_np, si_coord, si_chunks, si_results, si_feed_out, si_worker,
                   otherThanStdin>>

\* what the main thread of a worker sends for a chunk: convert_rows reports
\* the rows that fail to be converted, and update_chunk the chunk when all
\* its rows did
main_thread_messages(rows) ==
    IF NoBadRows(rows) THEN <<>>
    ELSE <<ImportTaskError("ParseError", SelectSeq(rows, LAMBDA r : r = "bad"), 1, TRUE)>>
         \o (IF NumBadRows(rows) = Len(rows)
             THEN <<ImportProcessResult(Len(rows))>> ELSE <<>>)

\* ImportProcess.inner_run: self.inmsg.recv() returns a chunk or None.  The
\* batch of the rows converted is submitted; its callback sends the result
\* of the chunk when no row of the chunk failed (update_chunk)
StdinWorkerRecv(w) ==
    /\ si_worker[w].pc = "recv"
    /\ si_chunks[w] # <<>>
    /\ si_chunks' = [si_chunks EXCEPT ![w] = Tail(@)]
    /\ LET chunk == Head(si_chunks[w]).rows
       IN  si_worker' = [si_worker EXCEPT ![w] =
               IF Head(si_chunks[w]) = StdinPill THEN [@ EXCEPT !.pc = "exit"]
               ELSE [pc |-> IF main_thread_messages(chunk) = <<>> THEN "recv" ELSE "send",
                     todo |-> main_thread_messages(chunk),
                     futures |-> IF NoBadRows(chunk) THEN Append(@.futures, Len(chunk))
                                 ELSE @.futures]]
    /\ UNCHANGED <<si_np, si_coord, si_pipe, si_feeder, si_results, si_feed_out,
                   otherThanStdin>>

\* the main thread of a worker in self.outmsg.send of convert_rows or of
\* update_chunk
StdinWorkerSend(w) ==
    /\ si_worker[w].pc = "send"
    /\ can_send(si_results[w])
    /\ si_results' = [si_results EXCEPT ![w] = Append(@, Head(si_worker[w].todo))]
    /\ si_worker' = [si_worker EXCEPT
           ![w].todo = Tail(@),
           ![w].pc = IF Tail(si_worker[w].todo) = <<>> THEN "recv" ELSE "send"]
    /\ UNCHANGED <<si_np, si_coord, si_pipe, si_feeder, si_chunks, si_feed_out,
                   otherThanStdin>>

\* result_callback of the batch of a chunk, on the driver's thread:
\* update_chunk sends ImportProcessResult
StdinWorkerCallback(w) ==
    /\ si_worker[w].futures # <<>>
    /\ can_send(si_results[w])
    /\ si_results' = [si_results EXCEPT
           ![w] = Append(@, ImportProcessResult(Head(si_worker[w].futures)))]
    /\ si_worker' = [si_worker EXCEPT ![w].futures = Tail(@)]
    /\ UNCHANGED <<si_np, si_coord, si_pipe, si_feeder, si_chunks, si_feed_out,
                   otherThanStdin>>

\* the records received from the channels in ready
RECURSIVE stdin_receive(_, _, _)
stdin_receive(coord, results, ready) ==
    IF ready = <<>> THEN coord
    ELSE LET result == Head(results[Head(ready)])
         IN  stdin_receive(
                 IF result.kind = "ImportProcessResult"
                 THEN [coord EXCEPT !.total_records = @ + result.n]
                 ELSE coord,
                 results, Tail(ready))

\* one pass of the loop of import_records: receive_results takes an object
\* from every channel that is readable, then the loop test
StdinReceive ==
    /\ si_coord.pc = "loop"
    /\ \E ready \in SUBSET StdinWorkers, fed \in BOOLEAN :
           /\ ready # {} \/ fed
           /\ fed => si_feed_out # <<>>
           /\ \A w \in ready : si_results[w] # <<>>
           /\ si_results' = [w \in StdinChannels |->
                                IF w \in ready THEN Tail(si_results[w]) ELSE si_results[w]]
           /\ si_feed_out' = IF fed THEN Tail(si_feed_out) ELSE si_feed_out
           /\ LET got == stdin_receive(si_coord, si_results, SortedSeq(ready))
                  result == IF fed THEN [got EXCEPT !.fed = TRUE, !.sent = Head(si_feed_out).n]
                            ELSE got
              IN  si_coord' = [result EXCEPT !.pc =
                      IF import_loop_condition(result.fed, result.total_records, result.sent)
                      THEN "loop" ELSE "pills"]
    /\ UNCHANGED <<si_np, si_pipe, si_feeder, si_chunks, si_worker, otherThanStdin>>

\* import_records after its loop: self.outmsg.channels[i].send(None) for
\* every process, the feeder being the last
StdinPoison ==
    /\ si_coord.pc = "pills"
    /\ \A w \in StdinWorkers : can_send(si_chunks[w])
    /\ can_send(si_pipe)
    /\ si_chunks' = [w \in StdinChannels |->
                        IF w \in StdinWorkers THEN Append(si_chunks[w], StdinPill)
                        ELSE si_chunks[w]]
    /\ si_pipe' = Append(si_pipe, PipeNone)
    /\ si_coord' = [si_coord EXCEPT !.pc = "done"]
    /\ UNCHANGED <<si_np, si_feeder, si_results, si_feed_out, si_worker, otherThanStdin>>

NoStdinWorker == [pc |-> "recv", todo |-> <<>>, futures |-> <<>>]

\* the state when ImportTask.run has started the processes of COPY FROM STDIN
StdinInit ==
    /\ si_np \in 2 .. MaxNumProcesses
    /\ \E n \in 1 .. MaxStdinRows :
           si_coord = [pc |-> "stdin", left |-> n, fed |-> FALSE, sent |-> 0,
                       total_records |-> 0]
    /\ si_pipe = <<>>
    /\ si_feeder = [pc |-> "read", rows |-> <<>>, ch |-> 1, exhausted |-> FALSE, sent |-> 0]
    /\ si_chunks = [w \in StdinChannels |-> <<>>]
    /\ si_results = [w \in StdinChannels |-> <<>>]
    /\ si_feed_out = <<>>
    /\ si_worker = [w \in StdinChannels |-> NoStdinWorker]

StdinIdle ==
    /\ si_np = 0
    /\ si_coord = [pc |-> "idle", left |-> 0, fed |-> FALSE, sent |-> 0, total_records |-> 0]
    /\ si_pipe = <<>>
    /\ si_feeder = [pc |-> "idle", rows |-> <<>>, ch |-> 1, exhausted |-> FALSE, sent |-> 0]
    /\ si_chunks = [w \in StdinChannels |-> <<>>]
    /\ si_results = [w \in StdinChannels |-> <<>>]
    /\ si_feed_out = <<>>
    /\ si_worker = [w \in StdinChannels |-> NoStdinWorker]

StdinNext ==
    \/ StdinSendRow
    \/ StdinSendEnd
    \/ StdinReadRow
    \/ StdinSendChunk
    \/ StdinFeederResult
    \/ StdinFeederExit
    \/ \E w \in StdinWorkers : StdinWorkerRecv(w)
    \/ \E w \in StdinWorkers : StdinWorkerSend(w)
    \/ \E w \in StdinWorkers : StdinWorkerCallback(w)
    \/ StdinReceive
    \/ StdinPoison

InitImport == ImportInit /\ RangesIdle /\ ExportIdle /\ WriterIdle /\ PolicyIdle /\ MeterIdle /\ BatchingIdle /\ TaskIdle /\ PagingIdle /\ LivenessIdle /\ ReadersIdle /\ FeedingIdle /\ UpdateIdle /\ StdinIdle

SpecImport == InitImport /\ [][ImportNext]_vars

\* every process runs, the driver completes every batch with a result or an
\* error, and time passes
FairSpecImport ==
    /\ SpecImport
    /\ WF_vars(FeederSend) /\ WF_vars(FeederThrottled)
    /\ WF_vars(FeederFinish) /\ WF_vars(FeederExit)
    /\ WF_vars(ImportReceive) /\ WF_vars(ImportReceiveTimeout)
    /\ \A w \in ImportWorkers :
           /\ WF_vars(ImportProcessChunk(w))
           /\ WF_vars(ImportSubmitBatch(w))
           /\ WF_vars(ImportProcessExit(w))
           /\ WF_vars(ImportResultCallback(w) \/ ImportErrCallback(w))

(***************************************************************************)
(* The export as a whole.                                                  *)
(***************************************************************************)
ExportNext ==
    \/ ExportSendAll
    \/ ExportReceive
    \/ \E w \in Workers : ExportStartRequest(w)
    \/ \E w \in Workers : ExportResultCallback(w)
    \/ \E w \in Workers : ExportErrCallback(w)

InitWriter == WriterInit /\ RangesIdle /\ ExportIdle /\ ImportIdle /\ PolicyIdle /\ MeterIdle /\ BatchingIdle /\ TaskIdle /\ PagingIdle /\ LivenessIdle /\ ReadersIdle /\ FeedingIdle /\ UpdateIdle /\ StdinIdle

SpecWriter == InitWriter /\ [][WriterNext]_vars

InitPolicy == PolicyInit /\ RangesIdle /\ ExportIdle /\ ImportIdle /\ WriterIdle /\ MeterIdle /\ BatchingIdle /\ TaskIdle /\ PagingIdle /\ LivenessIdle /\ ReadersIdle /\ FeedingIdle /\ UpdateIdle /\ StdinIdle

SpecPolicy == InitPolicy /\ [][PolicyNext]_vars

InitMeter == MeterInit /\ RangesIdle /\ ExportIdle /\ ImportIdle /\ WriterIdle /\ PolicyIdle /\ BatchingIdle /\ TaskIdle /\ PagingIdle /\ LivenessIdle /\ ReadersIdle /\ FeedingIdle /\ UpdateIdle /\ StdinIdle

SpecMeter == InitMeter /\ [][MeterNext]_vars

InitBatching == BatchingInit /\ RangesIdle /\ ExportIdle /\ ImportIdle /\ WriterIdle /\ PolicyIdle /\ MeterIdle /\ TaskIdle /\ PagingIdle /\ LivenessIdle /\ ReadersIdle /\ FeedingIdle /\ UpdateIdle /\ StdinIdle

SpecBatching == InitBatching /\ [][BatchingNext]_vars

InitTask == TaskInit /\ RangesIdle /\ ExportIdle /\ ImportIdle /\ WriterIdle /\ PolicyIdle /\ MeterIdle /\ BatchingIdle /\ PagingIdle /\ LivenessIdle /\ ReadersIdle /\ FeedingIdle /\ UpdateIdle /\ StdinIdle

SpecTask == InitTask /\ [][TaskNext]_vars

InitPaging == PagingInit /\ RangesIdle /\ ExportIdle /\ ImportIdle /\ WriterIdle /\ PolicyIdle /\ MeterIdle /\ BatchingIdle /\ TaskIdle /\ LivenessIdle /\ ReadersIdle /\ FeedingIdle /\ UpdateIdle /\ StdinIdle

SpecPaging == InitPaging /\ [][PagingNext]_vars

InitLiveness == LivenessInit /\ RangesIdle /\ ExportIdle /\ ImportIdle /\ WriterIdle /\ PolicyIdle /\ MeterIdle /\ BatchingIdle /\ TaskIdle /\ PagingIdle /\ ReadersIdle /\ FeedingIdle /\ UpdateIdle /\ StdinIdle

SpecLiveness == InitLiveness /\ [][LivenessNext]_vars

\* the coordinator runs, and so does every child until it dies
FairSpecLiveness ==
    /\ SpecLiveness
    /\ WF_vars(LiveSendWork) /\ WF_vars(LiveExportLoop) /\ WF_vars(LiveRetrySend)
    /\ WF_vars(LiveImportLoop) /\ WF_vars(LiveCheck)
    /\ \A p \in Processes : WF_vars(LiveChildPull(p)) /\ WF_vars(LiveChildResult(p))

InitReaders == ReadersInit /\ RangesIdle /\ ExportIdle /\ ImportIdle /\ WriterIdle /\ PolicyIdle /\ MeterIdle /\ BatchingIdle /\ TaskIdle /\ PagingIdle /\ LivenessIdle /\ FeedingIdle /\ UpdateIdle /\ StdinIdle

SpecReaders == InitReaders /\ [][ReadersNext]_vars

InitFeeding == FeedingInit /\ RangesIdle /\ ExportIdle /\ ImportIdle /\ WriterIdle /\ PolicyIdle /\ MeterIdle /\ BatchingIdle /\ TaskIdle /\ PagingIdle /\ LivenessIdle /\ ReadersIdle /\ UpdateIdle /\ StdinIdle

SpecFeeding == InitFeeding /\ [][FeedingNext]_vars

\* the feeder runs and time passes; the coordinator is not bound to end
FairSpecFeeding ==
    /\ SpecFeeding
    /\ SF_vars(FeedPass /\ fd_feeder'.current_record = 0)
    /\ WF_vars(FeedPass /\ fd_feeder'.reader # fd_feeder.reader)
    /\ WF_vars(FeedResult) /\ WF_vars(FeedReceive)

InitUpdate == UpdateInit /\ RangesIdle /\ ExportIdle /\ ImportIdle /\ WriterIdle /\ PolicyIdle /\ MeterIdle /\ BatchingIdle /\ TaskIdle /\ PagingIdle /\ LivenessIdle /\ ReadersIdle /\ FeedingIdle /\ StdinIdle

SpecUpdate == InitUpdate /\ [][UpdateNext]_vars

InitStdin == StdinInit /\ RangesIdle /\ ExportIdle /\ ImportIdle /\ WriterIdle /\ PolicyIdle /\ MeterIdle /\ BatchingIdle /\ TaskIdle /\ PagingIdle /\ LivenessIdle /\ ReadersIdle /\ FeedingIdle /\ UpdateIdle

SpecStdin == InitStdin /\ [][StdinNext]_vars

InitExport == ExportInit /\ RangesIdle /\ ImportIdle /\ WriterIdle /\ PolicyIdle /\ MeterIdle /\ BatchingIdle /\ TaskIdle /\ PagingIdle /\ LivenessIdle /\ ReadersIdle /\ FeedingIdle /\ UpdateIdle /\ StdinIdle

SpecExport == InitExport /\ [][ExportNext]_vars

\* the coordinator loop runs, the worker loop runs, and the driver completes
\* every query with a page or an error
FairSpecExport ==
    /\ SpecExport
    /\ WF_vars(ExportSendAll)
    /\ WF_vars(ExportReceive)
    /\ \A w \in Workers : /\ WF_vars(ExportStartRequest(w))
                          /\ WF_vars(ExportResultCallback(w) \/ ExportErrCallback(w))

(***************************************************************************)
(* Claims about the export coordinator and its workers.                    *)
(***************************************************************************)
\* the assignments of a range in a channel
RECURSIVE CountRange(_, _)
CountRange(msgs, r) ==
    IF msgs = <<>> THEN 0
    ELSE (IF Head(msgs).range = r THEN 1 ELSE 0) + CountRange(Tail(msgs), r)

RECURSIVE SumOver(_, _, _)
SumOver(ws, msgs, r) ==
    IF ws = {} THEN 0
    ELSE LET w == CHOOSE x \in ws : TRUE
         IN  CountRange(msgs[w], r) + SumOver(ws \ {w}, msgs, r)

\* how many times a range has been sent to a worker: the assignments the workers
\* have pulled and those still in a channel
TimesSent(r) == ex_hist[r].pulled + SumOver(Workers, ex_outmsg, r)

\* C1: a range-level error never re-dispatches a token range whose rows counter is
\* above 0 (rows is 0 at every re-dispatch), and every such error is counted as failed
C1_NoRetryWithRows ==
    \A r \in DOMAIN ex_hist :
        /\ ex_hist[r].resent > 0 => ex_hist[r].rows_at_send = 0
        /\ ex_hist[r].errors_with_rows <= ex_hist[r].failed

\* C1 witness: an error was handled for a range that has rows and attempts left
C1_Witness ==
    \E r \in DOMAIN ex_hist :
        /\ ex_hist[r].errors_with_rows > 0
        /\ ex_ranges[r].rows > 0
        /\ ex_ranges[r].attempts < MaxAttempts

\* C2: the attempts of every range equals the number of times the range was sent
\* to a worker, never decreases and never exceeds maxattempts
C2_AttemptsCountSends ==
    /\ [](\A r \in DOMAIN ex_ranges :
              /\ ex_ranges[r].attempts = TimesSent(r)
              /\ ex_ranges[r].attempts <= MaxAttempts)
    /\ [][\A r \in DOMAIN ex_ranges : ex_ranges'[r].attempts >= ex_ranges[r].attempts]_vars

\* C2 witness: a range was retried until its attempts were exhausted, then failed
C2_Witness ==
    \E r \in DOMAIN ex_hist :
        /\ ex_ranges[r].attempts = MaxAttempts
        /\ ex_hist[r].resent = MaxAttempts - 1
        /\ ex_hist[r].failed > 0

\* C3: with every worker alive and every started request ending with a final page
\* or an error, the receive loop eventually exits with succeeded + failed = total
C3_ExportTerminates ==
    <>(ex_pc = "done" /\ ex_succeeded + ex_failed = Cardinality(DOMAIN ex_ranges))

\* C4: a worker that fails to connect to every replica of a token range reports
\* the error for that token range: the message names the range it is about
C4_ConnectErrorNamesRange ==
    \A w \in Workers : \A i \in DOMAIN ex_inmsg[w] :
        ex_inmsg[w][i].kind = "Exception" => ex_inmsg[w][i].range = ex_inmsg[w][i].about

\* C7: the in-flight requests of one export worker are at most maxrequests
C7_InFlightAtMostMaxRequests ==
    \A w \in Workers : Cardinality(ex_futures[w]) <= MaxRequests

(***************************************************************************)
(* Claims about get_ranges.                                                *)
(***************************************************************************)
\* the tokens a row can have: those above the partitioner's minimum token
DataTokens == {t \in Tokens : get_min_token(rg_in.partitioner) = None
                              \/ t > get_min_token(rg_in.partitioner)}

\* the tokens selected by the query of at least one generated range
CoveredTokens == {t \in DataTokens : \E r \in DOMAIN rg_ranges : InQuery(r, t)}

\* (min_token, +inf) intersected with [begintoken, endtoken]; an unset end is unbounded
WindowTokens ==
    {t \in DataTokens : /\ (rg_in.begin_token # None => t >= rg_in.begin_token)
                        /\ (rg_in.end_token # None => t <= rg_in.end_token)}

\* the two checks of get_ranges that reject begintoken/endtoken
RangeOptionsAccepted ==
    /\ ~(Truthy(rg_in.begin_token)
         /\ PyLt(rg_in.begin_token, get_min_token(rg_in.partitioner)))
    /\ ~(Truthy(rg_in.begin_token) /\ Truthy(rg_in.end_token)
         /\ PyGt(rg_in.begin_token, rg_in.end_token))

\* C5: for every ring and every accepted begintoken/endtoken, the union of the
\* generated ranges is (min_token, +inf) intersected with [begintoken, endtoken]
C5_RangesCoverWindow ==
    (rg_pc = "done" /\ RangeOptionsAccepted) => CoveredTokens = WindowTokens

\* every integer a range can select lies in this interval or behaves as its ends do
TokenUniverse == (MIN_LONG - 1) .. (MaxToken + 1)

\* C6: the generated ranges, read as half-open intervals (begin, end] with None
\* unbounded, are pairwise disjoint: no token is selected by two ranges
C6_RangesDisjoint ==
    rg_pc = "done" =>
        \A r1, r2 \in DOMAIN rg_ranges :
            r1 # r2 => ~(\E t \in TokenUniverse : InQuery(r1, t) /\ InQuery(r2, t))

\* C6 witness: a ring walked with both ends of the window clipping ranges, and
\* three ranges generated
C6_Witness ==
    /\ rg_pc = "done"
    /\ Cardinality(DOMAIN rg_ranges) >= 3
    /\ Truthy(rg_in.begin_token) /\ Truthy(rg_in.end_token)
    /\ \E r \in DOMAIN rg_ranges : r[1] = rg_in.begin_token
    /\ \E r \in DOMAIN rg_ranges : r[2] = rg_in.end_token /\ r[2] \notin rg_in.ring

(***************************************************************************)
(* Claims about the import.                                                *)
(***************************************************************************)
\* the rows the feeder has sent in chunks
SentRows == 1 .. im_feeder.sent

\* the coordinator left its loop by the loop condition (not by the break)
ImportEndedNormally == im_coord.pc = "done" /\ ~im_coord.broke

C9_ChunkInvariant ==
    \A id \in ChunkIds :
        /\ im_chunks[id].imported <= im_chunks[id].len
        /\ (im_chunks[id].imported > 0 /\ im_chunks[id].imported = im_chunks[id].len)
               => im_emitted[id] >= 1

\* C10: the coordinator eventually has progress for all the rows the feeder
\* sent and leaves its loop
C10_ImportTerminates ==
    <>(im_coord.pc = "done" /\ im_coord.fed /\ im_coord.total_records >= im_coord.sent)

\* the sum of chunk['imported'] over the chunks
RECURSIVE SumImported(_)
SumImported(ids) ==
    IF ids = {} THEN 0
    ELSE LET id == CHOOSE x \in ids : TRUE
         IN  im_chunks[id].imported + SumImported(ids \ {id})

\* the progress the coordinator has received
Received == im_coord.total_records + im_coord.current_record

NoErrorOccurred == im_coord.parse_errors = 0 /\ im_coord.insert_errors = 0

SentInStep(w) == SubSeq(im_inmsg'[w], Len(im_inmsg[w]) + 1, Len(im_inmsg'[w]))

\* the messages of a sequence that are errors about the rows given, final or not
ErrorsAbout(msgs, rows, final) ==
    {i \in DOMAIN msgs : /\ msgs[i].kind = "ImportTaskError"
                         /\ msgs[i].rows = rows
                         /\ msgs[i].final = final}

\* a step in which the batch leaves the pending batches without being delivered
BatchFailed(w, batch) ==
    /\ batch \in im_batches[w]
    /\ batch \notin im_batches'[w]
    /\ im_delivered' = im_delivered

\* what a failure of a batch does: before its last attempt the batch is
\* pending again with attempts + 1 and the same rows and replicas, one error
\* that is not final is sent and nothing is credited; at its last attempt no
\* batch of these rows is left, exactly one final error is sent and the rows
\* are credited once
RetryStep(w, batch) ==
    IF batch.attempts < MaxAttempts
    THEN /\ [batch EXCEPT !.attempts = @ + 1] \in im_batches'[w]
         /\ Cardinality(ErrorsAbout(SentInStep(w), batch.rows, FALSE)) = 1
         /\ ErrorsAbout(SentInStep(w), batch.rows, TRUE) = {}
         /\ im_chunks'[batch.id].imported = im_chunks[batch.id].imported
    ELSE /\ \A other \in im_batches'[w] : other.rows # batch.rows
         /\ Cardinality(ErrorsAbout(SentInStep(w), batch.rows, TRUE)) = 1
         /\ im_chunks'[batch.id].imported = im_chunks[batch.id].imported + Len(batch.rows)

\* a batch that becomes pending is a batch of the chunk being sent, at its
\* first attempt, or a failed batch at its next attempt
NewBatchStep(w, batch) ==
    \/ /\ batch.attempts = 1
       /\ im_job[w].active
       /\ Head(im_job[w].batches).rows = batch.rows
    \/ /\ batch.attempts > 1
       /\ [batch EXCEPT !.attempts = @ - 1] \in im_batches[w]

\* C12: a batch is executed at most maxattempts times; a failure before the
\* last attempt resubmits it with attempts + 1 and the same replicas; a
\* failure at the last attempt sends exactly one final ImportTaskError,
\* credits its rows once and the batch is not submitted again
C12_BatchRetry ==
    /\ [](\A w \in ImportWorkers : \A batch \in im_batches[w] :
              batch.attempts >= 1 /\ batch.attempts <= MaxAttempts)
    /\ [][\A w \in ImportWorkers :
              /\ \A batch \in im_batches[w] : BatchFailed(w, batch) => RetryStep(w, batch)
              /\ \A batch \in im_batches'[w] \ im_batches[w] : NewBatchStep(w, batch)]_vars

\* the final error of a batch that failed maxattempts times is on its way
C12_Witness ==
    \E w \in ImportWorkers : \E i \in DOMAIN im_inmsg[w] :
        /\ im_inmsg[w][i].kind = "ImportTaskError"
        /\ im_inmsg[w][i].name = "WriteTimeout"
        /\ im_inmsg[w][i].final
        /\ im_inmsg[w][i].attempts = MaxAttempts

\* a step in which the batch leaves the pending batches delivered
BatchSucceeded(w, batch) ==
    /\ batch \in im_batches[w]
    /\ batch \notin im_batches'[w]
    /\ im_delivered' # im_delivered

\* the coordinator takes the first message of the channel of child c
Handled(c) == im_inmsg[c] # <<>> /\ im_inmsg'[c] = Tail(im_inmsg[c])

HandledErrors ==
    {c \in Children : Handled(c) /\ Head(im_inmsg[c]).kind = "ImportTaskError"}

\* the name of a read or parse error
StartsAsParseError(name) ==
    name \in {"ValueError", "TypeError", "ParseError", "IndexError", "ReadError"}

\* the sum of the values of a function over the children cs
RECURSIVE SumErrors(_, _)
SumErrors(cs, value) ==
    IF cs = {} THEN 0
    ELSE LET c == CHOOSE x \in cs : TRUE
         IN  value[c] + SumErrors(cs \ {c}, value)

Occurrences(rows, r) == Cardinality({i \in DOMAIN rows : rows[i] = r})

\* C15: an error named as a parse error adds len(rows) to parse_errors and its
\* rows to the error file when it is received; any other error adds len(rows)
\* to insert_errors and its rows to the error file only when it is final
C15_ErrorClassification ==
    [][LET err(c) == Head(im_inmsg[c])
           parse == [c \in HandledErrors |->
                        IF StartsAsParseError(err(c).name) THEN Len(err(c).rows) ELSE 0]
           insert == [c \in HandledErrors |->
                         IF StartsAsParseError(err(c).name) THEN 0 ELSE Len(err(c).rows)]
       IN  /\ im_coord'.parse_errors =
                  im_coord.parse_errors + SumErrors(HandledErrors, parse)
           /\ im_coord'.insert_errors =
                  im_coord.insert_errors + SumErrors(HandledErrors, insert)
           /\ \A r \in Rows :
                  LET written == [c \in HandledErrors |->
                                     IF StartsAsParseError(err(c).name) \/ err(c).final
                                     THEN Occurrences(err(c).rows, r) ELSE 0]
                  IN  im_err_file'[r] =
                          im_err_file[r] + SumErrors(HandledErrors, written)]_vars

\* the coordinator has handled a parse error, an insert error that was not
\* final and a final insert error
C15_Witness ==
    /\ im_coord.parse_errors > 0
    /\ im_coord.insert_errors > im_coord.num_rows_failed - im_coord.parse_errors
    /\ im_coord.num_rows_failed > im_coord.parse_errors

\* parse_errors > maxparseerrors >= 0 or insert_errors > maxinserterrors >= 0
ErrorMaximumExceeded ==
    \/ (im_coord.parse_errors > im_opts.maxparseerrors /\ im_opts.maxparseerrors >= 0)
    \/ (im_coord.insert_errors > im_opts.maxinserterrors /\ im_opts.maxinserterrors >= 0)

\* C16: the coordinator aborts its loop for errors exactly when parse_errors >
\* maxparseerrors >= 0 or insert_errors > maxinserterrors >= 0: it is in its
\* loop only while neither holds, it has left the loop by the break exactly
\* when one holds, and a maximum of -1 never aborts for its kind of error
C16_AbortIffMaximumExceeded ==
    /\ im_coord.pc = "loop" => ~ErrorMaximumExceeded
    /\ im_coord.pc = "done" => (im_coord.broke <=> ErrorMaximumExceeded)
    /\ (im_coord.broke /\ im_opts.maxparseerrors = -1) =>
           im_coord.insert_errors > im_opts.maxinserterrors
    /\ (im_coord.broke /\ im_opts.maxinserterrors = -1) =>
           im_coord.parse_errors > im_opts.maxparseerrors

\* the run was aborted for its insert errors after more parse errors than any
\* maximum of the model, the maximum of parse errors being -1
C16_Witness ==
    /\ im_coord.pc = "done"
    /\ im_coord.broke
    /\ im_opts.maxparseerrors = -1
    /\ im_coord.parse_errors > MaxErrorsOption
    /\ im_coord.insert_errors > im_opts.maxinserterrors

\* the places <<child, index>> of the messages of the channels of the workers
Places(msgs) == UNION {{<<w, i>> : i \in DOMAIN msgs[w]} : w \in ImportWorkers}

\* the chunks on their way to a worker that carry row r
ChunksCarrying(r) ==
    Cardinality({p \in Places(im_outmsg) :
                     /\ im_outmsg[p[1]][p[2]].kind = "chunk"
                     /\ r \in Range(im_outmsg[p[1]][p[2]].rows)})

\* the errors on their way to the coordinator that carry row r, ParseErrors or others
ErrorsCarrying(r, parse) ==
    Cardinality({p \in Places(im_inmsg) :
                     /\ im_inmsg[p[1]][p[2]].kind = "ImportTaskError"
                     /\ (im_inmsg[p[1]][p[2]].name = "ParseError") = parse
                     /\ r \in Range(im_inmsg[p[1]][p[2]].rows)})

\* C17: a row that fails conversion is never in a batch and is reported in
\* exactly one ParseError that carries it: from the moment the feeder has sent
\* the row it is in one place, the chunk on its way to a worker, the one
\* ParseError on its way to the coordinator, or the error file, written once
C17_ParseErrorReportedOnce ==
    \A r \in Rows : im_kinds[r] = "bad" =>
        /\ ChunksCarrying(r) + ErrorsCarrying(r, TRUE) + im_err_file[r]
               = IF r <= im_feeder.pos THEN 1 ELSE 0
        /\ ErrorsCarrying(r, FALSE) = 0
        /\ \A w \in ImportWorkers :
               /\ \A batch \in im_batches[w] : r \notin Range(batch.rows)
               /\ im_job[w].active =>
                      \A i \in DOMAIN im_job[w].batches : r \notin Range(im_job[w].batches[i].rows)
        /\ r \notin im_delivered

\* a chunk of a row that fails conversion and a row that converts: the first
\* is in the error file, the second was written to the database
C17_Witness ==
    /\ im_opts.chunksize = 2
    /\ im_kinds[1] = "bad" /\ im_kinds[2] = "ok"
    /\ im_err_file[1] = 1
    /\ 2 \in im_delivered

(***************************************************************************)
(* Claims about the export writer.                                         *)
(***************************************************************************)
\* the files the writer has opened, by name
OpenedFiles == DOMAIN wr_writer.files \ {Stdout}

\* the lines of a file that are not the header
DataLines(name) == SelectSeq(wr_writer.files[name], LAMBDA line : line # HeaderLine)

\* the writer has been opened on a file with maxoutputsize set
WritesWithSplit == wr_pc \in {"open", "closed"} /\ wr_opts.to_file /\ wr_opts.max_output_size > 0

Smaller(a, b) == IF a < b THEN a ELSE b

\* C18: with maxoutputsize M the files fname, fname.1, ... hold the rows in
\* the order written, whole, M rows in each file but the last: the n-th file
\* holds exactly the lines of the rows n*M + 1 .. (n+1)*M, the last one up to
\* the last row written, and every row written is in a file
C18_SplitByMaxOutputSize ==
    WritesWithSplit =>
        /\ OpenedFiles = 0 .. (Cardinality(OpenedFiles) - 1)
        /\ \A name \in OpenedFiles :
               /\ DataLines(name) =
                      csv_data(name * wr_opts.max_output_size + 1,
                               Smaller((name + 1) * wr_opts.max_output_size, wr_next))
               /\ (name + 1) \in OpenedFiles => (name + 1) * wr_opts.max_output_size <= wr_next
        /\ Cardinality(OpenedFiles) * wr_opts.max_output_size >= wr_next

\* C19: with the header enabled every file the writer has opened starts with
\* the header row and holds it once
C19_HeaderInEveryFile ==
    (wr_pc \in {"open", "closed"} /\ wr_opts.to_file /\ wr_opts.header) =>
        \A name \in OpenedFiles :
            /\ wr_writer.files[name] # <<>>
            /\ Head(wr_writer.files[name]) = HeaderLine
            /\ Cardinality({i \in DOMAIN wr_writer.files[name] :
                                wr_writer.files[name][i] = HeaderLine}) = 1

\* a closed writer that wrote to three files or more, the last one not full
C18_Witness ==
    /\ WritesWithSplit
    /\ wr_pc = "closed"
    /\ Cardinality(OpenedFiles) >= 3
    /\ wr_next % wr_opts.max_output_size # 0

(***************************************************************************)
(* Claims about the retry policy.                                          *)
(***************************************************************************)
\* the seconds slept by the handler
RECURSIVE Slept(_)
Slept(sleeps) == IF sleeps = <<>> THEN 0 ELSE Head(sleeps) + Slept(Tail(sleeps))

\* C20: a read or write timeout with retry_num < max_attempts returns RETRY
\* with the consistency it was given, after a delay d with
\* 0 <= d < 2^(retry_num + 1); with retry_num >= max_attempts it returns
\* RETHROW without sleeping; the handler, read or write, makes no difference
C20_BackoffRetry ==
    rp_call.handler \in {"read", "write"} =>
        IF rp_call.retry_num < rp_policy.max_attempts
        THEN /\ rp_result = [decision |-> "RETRY", consistency |-> rp_call.consistency]
             /\ 0 <= Slept(rp_sleeps)
             /\ Slept(rp_sleeps) < 2 ^ (rp_call.retry_num + 1)
        ELSE /\ rp_result.decision = "RETHROW"
             /\ rp_sleeps = <<>>

\* a write timeout at its last retry that slept the longest delay there is
C20_Witness ==
    /\ rp_call.handler = "write"
    /\ rp_call.retry_num = rp_policy.max_attempts - 1
    /\ rp_call.retry_num > 0
    /\ rp_result.decision = "RETRY"
    /\ Slept(rp_sleeps) = 2 ^ (rp_call.retry_num + 1) - 1

(***************************************************************************)
(* Claims about the rate meter.                                            *)
(***************************************************************************)
\* C21: total_records never decreases, total_records + current_record is the
\* sum of all increments, and get_total_records returns that sum
C21_MeterCountsIncrements ==
    /\ [][rm_meter'.total_records >= rm_meter.total_records]_vars
    /\ [](rm_meter.total_records + rm_meter.current_record = rm_sum)
    /\ [](rm_returned # None => rm_returned = rm_sum)

\* get_total_records, called after time has passed, returns all the records
\* of the run
C21_Witness ==
    /\ rm_returned = MaxRecords
    /\ rm_now > 0
    /\ rm_meter.last_checkpoint_time = rm_now

(***************************************************************************)
(* Claims about the batches of a chunk.                                    *)
(***************************************************************************)
\* how many times a row is in the batches of the chunk
InBatches(r) ==
    Cardinality({p \in UNION {{<<i, j>> : j \in DOMAIN sb_result.batches[i].batch.rows} :
                                 i \in DOMAIN sb_result.batches} :
                     sb_result.batches[p[1]].batch.rows[p[2]] = r})

\* C22: the batches of a chunk are disjoint and hold exactly the converted
\* rows whose ring position could be computed, each once; a batch has between
\* 1 and maxbatchsize rows and the id of the chunk
C22_BatchesPartitionChunk ==
    sb_pc = "split" =>
        /\ \A r \in ChunkRows :
               InBatches(r) = IF /\ r \in Range(sb_chunk.rows)
                                 /\ sb_kinds[r] \notin {"bad", "nokey"}
                              THEN 1 ELSE 0
        /\ \A i \in DOMAIN sb_result.batches :
               /\ Len(sb_result.batches[i].batch.rows) >= 1
               /\ Len(sb_result.batches[i].batch.rows) <= MaxBatchSize
               /\ sb_result.batches[i].batch.id = sb_chunk.id

\* a chunk with a row without a ring position, its other rows in two
\* batches or more, one of them full
C22_Witness ==
    /\ sb_pc = "split"
    /\ \E r \in Range(sb_chunk.rows) : sb_kinds[r] = "nokey"
    /\ Len(sb_result.batches) >= 2
    /\ \E i \in DOMAIN sb_result.batches :
           Len(sb_result.batches[i].batch.rows) = MaxBatchSize

(***************************************************************************)
(* Claims about the start of a COPY command.                               *)
(***************************************************************************)
\* the command is rejected by the validation of run()
Rejected ==
    \/ tk_in.unrecognized
    \/ tk_in.direction = "to" /\ tk_task.columns = {}
    \/ tk_in.direction = "from" /\ tk_task.valid_columns = {}
    \/ tk_in.direction = "from" /\ \E c \in tk_in.primary_key : c \notin tk_task.valid_columns

\* C23: with an unrecognized option, with no column selected or, on import,
\* with a primary key column missing or skipped, run() returns; no child
\* process is started and no message is sent on any channel
C23_RejectedStartsNothing ==
    (tk_pc \in {"started", "returned"} /\ Rejected) =>
        /\ tk_pc = "returned"
        /\ tk_task.processes = <<>>
        /\ tk_task.started = 0
        /\ tk_sent = 0

\* an import whose options and columns are fine, rejected for the skipped
\* column of its primary key
C23_Witness ==
    /\ tk_pc = "returned"
    /\ tk_in.direction = "from"
    /\ ~tk_in.unrecognized
    /\ tk_task.valid_columns # {}
    /\ \E c \in tk_in.primary_key : c \in tk_in.skipcols

\* C24: a started import has numprocesses + 1 child processes, the workers
\* and the feeder, and as many channels in each direction
C24_ImportProcessCount ==
    (tk_pc = "started" /\ tk_in.direction = "from") =>
        /\ Len(tk_task.processes) = tk_in.numprocesses + 1
        /\ tk_task.started = tk_in.numprocesses + 1
        /\ tk_task.channels = tk_in.numprocesses + 1

C26_ChildDeathEndsLoop ==
    ((\E p \in Processes : ~lv_alive[p]) /\ lv_pc \in {"loop", "send"})
        ~> (lv_pc = "done" /\ lv_reported)

(***************************************************************************)
(* Claims about the readers of the feeder.                                 *)
(***************************************************************************)
\* the rows after the first skiprows rows and within the first maxrows rows
ExpectedRows ==
    LET last == IF 0 <= rd_in.max_rows /\ rd_in.max_rows < rd_in.rows
                THEN rd_in.max_rows ELSE rd_in.rows
    IN  [k \in 1 .. (IF last > rd_in.skip_rows THEN last - rd_in.skip_rows ELSE 0) |->
            rd_in.skip_rows + k]

\* C27: on the same rows with the same skiprows and maxrows, the FilesReader
\* and the PipeReader deliver the same rows: those after the first skiprows
\* rows and within the first maxrows rows
C27_ReadersDeliverTheSame ==
    (rd_files.exhausted /\ rd_pipe.exhausted) =>
        /\ rd_files.returned = rd_pipe.returned
        /\ rd_pipe.returned = ExpectedRows

(***************************************************************************)
(* Claims about the feeder.                                                *)
(***************************************************************************)
\* C28: a chunk that is sent has at least one row and at most
\* min(chunksize, ingestrate - current_record of the send meter when it was
\* read) rows; the ids of the chunks are 1, 2, 3, ...; current_record of the
\* send meter never exceeds ingestrate
C28_ChunkBounds ==
    /\ \A k \in DOMAIN fd_chunks :
           /\ Len(fd_chunks[k].rows) >= 1
           /\ Len(fd_chunks[k].rows) <= fd_in.chunk_size
           /\ Len(fd_chunks[k].rows) <= fd_chunks[k].max_rows
           /\ fd_chunks[k].id = k
    /\ fd_feeder.chunk_id = Len(fd_chunks)
    /\ fd_feeder.current_record <= fd_in.ingest_rate

\* a chunk cut by the ingest rate: fewer rows than chunksize, and not the
\* last rows of the file
C28_Witness ==
    /\ fd_feeder.current_record = fd_in.ingest_rate
    /\ \E k \in DOMAIN fd_chunks :
           /\ k > 1
           /\ Len(fd_chunks[k].rows) = fd_chunks[k].max_rows
           /\ Len(fd_chunks[k].rows) < fd_in.chunk_size
           /\ fd_chunks[k].rows[Len(fd_chunks[k].rows)] < fd_in.rows

\* the rows of the chunks the feeder sent
RECURSIVE RowsSent(_)
RowsSent(chunks) ==
    IF chunks = <<>> THEN 0 ELSE Len(Head(chunks).rows) + RowsSent(Tail(chunks))

\* what the feeder does when it reports: one result at most, after the last
\* chunk, with the rows of the chunks in sent, and then recv() until the
\* coordinator sends something
FeederReportOrder ==
    /\ [](Len(fd_outmsg) <= 1)
    /\ [](fd_outmsg # <<>> =>
             /\ fd_outmsg[1].sent = RowsSent(fd_chunks)
             /\ fd_feeder.reader.exhausted
             /\ fd_feeder.pc \in {"recv", "exit"})
    /\ [][fd_outmsg # <<>> => fd_chunks' = fd_chunks]_vars
    /\ [][(fd_feeder.pc = "recv" /\ fd_feeder'.pc # "recv") => fd_inmsg = "None"]_vars

\* C29: the feeder sends exactly one FeedingProcessResult, after the last
\* chunk, with sent the sum of the rows of the chunks it sent, and then waits
\* for a message of the coordinator
C29_FeederReportsOnce ==
    /\ <>(Len(fd_outmsg) = 1)
    /\ FeederReportOrder

(***************************************************************************)
(* Claims about the threads of an import worker.                           *)
(***************************************************************************)
\* C30: update_chunk calls of the callbacks and of the main path are
\* serialized: when no call is running, imported is the number of rows
\* passed to the calls, and the result of a chunk whose rows are all counted
\* has been sent, once
C30_NoLostUpdate ==
    (\A t \in Threads : uc_thread[t].pc = "idle") =>
        /\ uc_chunk.imported = uc_rows
        /\ uc_out = (IF uc_rows = uc_chunk.len THEN 1 ELSE 0)

(***************************************************************************)
(* Claims about the ring positions of the rows of a chunk.                 *)
(***************************************************************************)
\* the slot of the ring that owns a token when a slot owns (prev, curr]: the
\* first slot whose token is not below it, the first slot of the ring after
\* the last token
OwnerSlot(ring, val) ==
    IF \E i \in DOMAIN ring : val <= ring[i]
    THEN (CHOOSE i \in DOMAIN ring : val <= ring[i] /\ \A j \in DOMAIN ring : val <= ring[j] => i <= j) - 1
    ELSE 0

\* the rows of the chunk that get a ring position
RoutedRows == {r \in Range(sb_chunk.rows) : sb_kinds[r] \notin {"bad", "nokey"}}

\* C31: get_ring_pos gives for every token the slot that owns it, a token of
\* the ring included, and the batch of a row has replicas of the owner of the
\* token of the row
C31_RingPosIsOwner ==
    sb_pc = "split" =>
        /\ \A r \in RoutedRows :
               get_ring_pos(import_ring, pk_to_token_value(r))
                   = OwnerSlot(import_ring, pk_to_token_value(r))
        /\ \A i \in DOMAIN sb_result.batches :
               \A k \in DOMAIN sb_result.batches[i].batch.rows :
                   Range(sb_result.batches[i].replicas) \subseteq
                       Range(replicas_at(OwnerSlot(import_ring,
                           pk_to_token_value(sb_result.batches[i].batch.rows[k]))))

\* the rows of the chunk that fall on a ring position
RoutedAt(p) == {r \in RoutedRows : get_ring_pos(import_ring, pk_to_token_value(r)) = p}

\* C32: the rows of a ring position that has at least minbatchsize rows in
\* the chunk are sent in batches of their own, with all the replicas of the
\* position; only positions with fewer rows are pooled by a replica
C32_BatchingThreshold ==
    sb_pc = "split" =>
        \A p \in RingPositions :
            \A i \in DOMAIN sb_result.batches :
                (\E r \in RoutedAt(p) : r \in Range(sb_result.batches[i].batch.rows)) =>
                    IF Cardinality(RoutedAt(p)) >= MinBatchSize
                    THEN /\ Range(sb_result.batches[i].replicas) = Range(replicas_at(p))
                         /\ Range(sb_result.batches[i].batch.rows) \subseteq RoutedAt(p)
                    ELSE Len(sb_result.batches[i].replicas) <= 1

(***************************************************************************)
(* Claims about empty export ranges.                                       *)
(***************************************************************************)
\* C33: a range of get_ranges with its two ends bounded has begin < end,
\* whatever the ring and the begin and end tokens
C33_NoEmptyRange ==
    rg_pc = "done" =>
        \A key \in DOMAIN rg_ranges :
            (key[1] # None /\ key[2] # None) => key[1] < key[2]

(***************************************************************************)
(* Claims about the end of an export request.                              *)
(***************************************************************************)
\* the messages a step appends to the channel of worker w
SentBy(w) ==
    IF Len(ex_inmsg'[w]) > Len(ex_inmsg[w])
          /\ SubSeq(ex_inmsg'[w], 1, Len(ex_inmsg[w])) = ex_inmsg[w]
    THEN SubSeq(ex_inmsg'[w], Len(ex_inmsg[w]) + 1, Len(ex_inmsg'[w]))
    ELSE <<>>

\* C34: a request ends with (None, None) or with (token_range, exception),
\* never with both: no callback of a request sends the error of its range
\* and then the completion
C34_ErrorExcludesCompletion ==
    [][\A w \in Workers :
          ~(\E i, j \in DOMAIN SentBy(w) :
                /\ i < j
                /\ SentBy(w)[i].kind = "Exception"
                /\ SentBy(w)[i].range # NoRange
                /\ SentBy(w)[j] = DoneMsg)]_vars

\* C35: the ranges counted as succeeded or failed by export_records never
\* outnumber the ranges of the export, whatever the workers send
C35_CountsWithinTotal ==
    ex_pc \in {"loop", "done"} =>
        ex_succeeded + ex_failed <= Cardinality(DOMAIN ex_ranges)

(***************************************************************************)
(* Claims about the request counter of an export session.                  *)
(***************************************************************************)
\* the requests started on the session of host h of worker w whose final
\* page or error has not arrived yet
InFlight(w, h) == {f \in ex_futures[w] : f.host = h}

\* C36: the requests of every session of every export worker is never
\* negative and is the number of requests started on the session and not yet
\* completed or failed
C36_RequestsCountInFlight ==
    \A w \in Workers :
        \A h \in DOMAIN ex_sessions[w] :
            /\ ex_sessions[w][h] >= 0
            /\ ex_sessions[w][h] = Cardinality(InFlight(w, h))

\* a session that runs two requests, one of them started by add_request, while
\* another session has completed its request
C36_Witness ==
    \E w, v \in Workers :
        /\ \E h \in DOMAIN ex_sessions[w] : ex_sessions[w][h] = 2
        /\ \E h \in DOMAIN ex_sessions[v] : ex_sessions[v][h] = 0

(***************************************************************************)
(* Claims about the progress messages of a chunk.                          *)
(***************************************************************************)
\* C37: a worker sends at most one ImportProcessResult for a chunk, so the
\* rows the coordinator adds up for the chunk never exceed the rows of the
\* chunk, also when the main path reports a failure while the callbacks of
\* the batches already submitted run
C37_OneResultPerChunk ==
    /\ uc_out <= 1
    /\ uc_out * uc_chunk.len <= uc_chunk.len

(***************************************************************************)
(* Claims about the count of insert errors.                                *)
(***************************************************************************)
\* the rows that reached insertion and were given up: written to the error
\* file and not rejected by the conversion or for their partition key
FinallyFailedRows ==
    {r \in Rows : im_err_file[r] > 0 /\ im_kinds[r] \notin {"bad", "nokey"}}

\* C38: insert_errors never exceeds the number of distinct rows whose
\* insertion finally failed, so the failures of a batch that is retried do
\* not count towards maxinserterrors
C38_InsertErrorsAreFinal ==
    im_coord.insert_errors <= Cardinality(FinallyFailedRows)

(***************************************************************************)
(* Claims about the import from STDIN.                                     *)
(***************************************************************************)
\* the coordinator is in a send to the feeder that the pipe does not take
CoordinatorBlocked == si_coord.pc = "stdin" /\ ~can_send(si_pipe)

\* the feeder is in the send of a chunk that the pipe of the worker does not take
FeederBlocked == si_feeder.pc = "send" /\ ~can_send(si_chunks[si_feeder.ch])

\* no thread of worker w can move: the main thread is in a send and the
\* pipe to the coordinator is full (a callback in a send holds the same pipe)
WorkerBlocked(w) == si_worker[w].pc = "send" /\ ~can_send(si_results[w])

\* worker w has nothing to receive and nothing it can send
WorkerIdle(w) ==
    /\ si_worker[w].pc = "recv"
    /\ si_chunks[w] = <<>>
    /\ si_worker[w].futures # <<>> => ~can_send(si_results[w])

\* C39: with bounded channels no state of an import from STDIN has the
\* coordinator blocked in a send to the feeder, the feeder blocked in a send
\* to a worker and that worker blocked in a send to the coordinator, the
\* other workers having nothing to do
C39_StdinDeadlockFree ==
    ~(/\ si_coord.pc = "stdin"
      /\ CoordinatorBlocked
      /\ FeederBlocked
      /\ WorkerBlocked(si_feeder.ch)
      /\ \A w \in StdinWorkers : WorkerBlocked(w) \/ WorkerIdle(w))

(***************************************************************************)
(* Claims about the worker channels of the feeder.                         *)
(***************************************************************************)
\* C40: for every numprocesses >= 1 the feeder has at least one worker
\* channel, and for an input that is not empty its loop eventually exhausts
\* the reader and it sends FeedingProcessResult
C40_FeederExhaustsReader ==
    /\ [](fd_in.numprocesses >= 1 => worker_channels(fd_in) >= 1)
    /\ (fd_in.rows > 0 /\ fd_in.numprocesses >= 1) =>
           <>(fd_feeder.reader.exhausted /\ fd_outmsg # <<>>)
InitRanges == RangesInit /\ ExportIdle /\ ImportIdle /\ WriterIdle /\ PolicyIdle /\ MeterIdle /\ BatchingIdle /\ TaskIdle /\ PagingIdle /\ LivenessIdle /\ ReadersIdle /\ FeedingIdle /\ UpdateIdle /\ StdinIdle

SpecRanges == InitRanges /\ [][GetRanges]_vars
====
